---- MODULE Spec2Model ----
(***************************************************************************)
(* Chat API: token/session/revocation stores, the HTTP authentication      *)
(* middleware, and the WebSocket connection manager (registry, room        *)
(* subscriptions, typing timers, presence and room broadcast).             *)
(*                                                                         *)
(* Time is counted in ticks of 12 hours.  Maps of the program (Map, Set)   *)
(* are functions whose DOMAIN is the set of keys held.                     *)
(***************************************************************************)
EXTENDS Integers, Sequences, FiniteSets, TLC

VARIABLES
  now,               \* wall clock (new Date() / Date.now()), in ticks
  jwtExpiresIn,      \* config.jwt.expiresIn, in ticks
  sessionMaxAge,     \* config.session.maxAge, in ticks
  tokens,            \* every token signed so far: token -> its payload
  activeSessions,    \* data/sessions.js activeSessions: sessionId -> session
  tokenBlacklist,    \* data/sessions.js tokenBlacklist: jti -> entry
  users,             \* data/users.js users: userId -> record
  rooms,             \* data/rooms.js rooms: roomId -> record
  messages,          \* data/messages.js messages, in insertion order
  sockets,           \* every WebSocket object: conn -> [readyState, userId, isAlive]
  clients,           \* WebSocketServer.clients: userId -> Set<conn>
  roomSubscriptions, \* WebSocketServer.roomSubscriptions: roomId -> Set<userId>
                     \*   (a room without a key holds the empty set)
  typingUsers,       \* WebSocketServer.typingUsers: roomId -> the users with a
                     \*   pending timer (a room without a key holds none)
  typingTimeouts,    \* the timeouts handleTyping has scheduled that have neither
                     \*   fired nor been cleared: roomId -> userId -> how many
  registered,        \* data/users.js users: the records createUser has pushed
                     \*   after the initial ones, in order
  registering,       \* the register requests that passed findExisting and
                     \*   await bcrypt.hash inside createUser, in arrival order
  out                \* the frames written by ws.send during the last step, in order

cfgVars  == <<jwtExpiresIn, sessionMaxAge>>
authVars == <<tokens, activeSessions, tokenBlacklist>>
dataVars == <<users, rooms, messages>>
wsVars   == <<sockets, clients, roomSubscriptions, typingUsers, typingTimeouts>>
regVars  == <<registered, registering>>
vars     == <<now, cfgVars, authVars, dataVars, wsVars, regVars, out>>

NULL == "null"

(***************************************************************************)
(* Bounds of the model.                                                    *)
(***************************************************************************)
MaxTime   == 3
MaxTokens == 2
MaxConns  == 2
MaxMessages == 4
MaxRegistrations == 3
MaxEdits == 2

(***************************************************************************)
(* Program constants, in ticks of 12 hours.                                *)
(***************************************************************************)
DefaultJwtExpiresIn  == 2   \* config.jwt.expiresIn '24h'
DefaultSessionMaxAge == 2   \* config.session.maxAge 86400000 ms
LogoutBlacklistHours == 2   \* expiresAt.setHours(expiresAt.getHours() + 24)

(***************************************************************************)
(* Generic map helpers (Map.set / Map.delete).                             *)
(***************************************************************************)
MapSet(m, k, v) == [x \in DOMAIN m \cup {k} |-> IF x = k THEN v ELSE m[x]]
MapDelete(m, k) == [x \in DOMAIN m \ {k} |-> m[x]]
EmptyMap        == [x \in {} |-> NULL]

(***************************************************************************)
(* Configuration: the defaults are 24 h for both lifetimes; the            *)
(* environment may set either one.                                         *)
(***************************************************************************)
\* <<config.jwt.expiresIn, config.session.maxAge>>: the defaults (24 h, 24 h),
\* and a deployment with a longer token and a shorter session
Configs ==
  {<<DefaultJwtExpiresIn, DefaultSessionMaxAge>>,
   <<DefaultJwtExpiresIn + 2, DefaultSessionMaxAge - 1>>}

(***************************************************************************)
(* data/users.js                                                           *)
(***************************************************************************)
initialUsers ==
  [u \in {"user1", "user2", "user3"} |->
     CASE u = "user1" -> [username |-> "alice",   role |-> "admin",     status |-> "online"]
       [] u = "user2" -> [username |-> "bob",     role |-> "user",      status |-> "offline"]
       [] u = "user3" -> [username |-> "charlie", role |-> "moderator", status |-> "online"]]

UserIds == DOMAIN initialUsers
UserOrder == <<"user1", "user2", "user3">>

UsersFindById(id) == IF id \in DOMAIN users THEN id ELSE NULL

UpdateStatus(us, userId, status) ==
  IF userId \in DOMAIN us THEN [us EXCEPT ![userId].status = status] ELSE us

(***************************************************************************)
(* Tokens.  A token string is named by a number: 1..MaxTokens are the      *)
(* tokens generateToken can sign, 0 is a string that jwt.verify rejects    *)
(* (bad signature or not a JWT).  The k-th login draws session id k and    *)
(* jti k (two fresh uuids).                                                *)
(***************************************************************************)
TokenIds    == 1..MaxTokens
TokenInputs == 0..MaxTokens

\* jwt.verify(token, secret): "ok", or the error it throws
JwtVerify(token) ==
  IF token \notin DOMAIN tokens THEN "JsonWebTokenError"
  ELSE IF now >= tokens[token].exp THEN "TokenExpiredError"
  ELSE "ok"

\* middleware/auth.js generateToken: the payload signed with expiresIn
GenerateToken(userId, sessionId, jti) ==
  [userId |-> userId, sessionId |-> sessionId, jti |-> jti,
   iat |-> now, exp |-> now + jwtExpiresIn]

(***************************************************************************)
(* data/sessions.js                                                        *)
(***************************************************************************)
CreateSession(ss, sessionId, userId, tokenJti) ==
  MapSet(ss, sessionId,
         [userId |-> userId, tokenJti |-> tokenJti, loginTime |-> now,
          lastActivity |-> now, expiresAt |-> now + sessionMaxAge])

\* getSession: an expired session is deleted on sight
SessionExpired(ss, sessionId) ==
  sessionId \in DOMAIN ss /\ ss[sessionId].expiresAt < now

GetSessionStore(ss, sessionId) ==
  IF SessionExpired(ss, sessionId) THEN MapDelete(ss, sessionId) ELSE ss

IsValidSessionNoExpiry(ss, sessionId) == sessionId \in DOMAIN ss
IsValidSessionAlways(ss, sessionId) == TRUE
IsValidSession(ss, sessionId) ==
  sessionId \in DOMAIN ss /\ ~SessionExpired(ss, sessionId)

UpdateActivitySliding(ss, sessionId) ==
  IF sessionId \in DOMAIN ss
    THEN [ss EXCEPT ![sessionId].lastActivity = now,
                    ![sessionId].expiresAt = now + sessionMaxAge]
    ELSE ss

UpdateActivity(ss, sessionId) ==
  IF sessionId \in DOMAIN ss THEN [ss EXCEPT ![sessionId].lastActivity = now] ELSE ss

DeleteSessionsOfUser(ss, sessionId) ==
  IF sessionId \notin DOMAIN ss THEN ss
  ELSE [s \in {x \in DOMAIN ss : ss[x].userId # ss[sessionId].userId} |-> ss[s]]

DeleteSession(ss, sessionId) == MapDelete(ss, sessionId)

BlacklistToken(bl, tokenJti, expiresAt) ==
  MapSet(bl, tokenJti, [blacklistedAt |-> now, expiresAt |-> expiresAt])

\* isTokenBlacklisted: an expired entry is deleted on sight
BlacklistEntryExpired(bl, tokenJti) ==
  tokenJti \in DOMAIN bl /\ bl[tokenJti].expiresAt < now

IsTokenBlacklistedStore(bl, tokenJti) ==
  IF BlacklistEntryExpired(bl, tokenJti) THEN MapDelete(bl, tokenJti) ELSE bl

IsTokenBlacklistedNever(bl, tokenJti) == FALSE
IsTokenBlacklisted(bl, tokenJti) ==
  tokenJti \in DOMAIN bl /\ ~BlacklistEntryExpired(bl, tokenJti)

CleanupSessionsInclusive(ss) ==
  [s \in {x \in DOMAIN ss : ss[x].expiresAt > now} |-> ss[s]]

\* cleanup: the periodic sweep over both maps
CleanupSessions(ss) == [s \in {x \in DOMAIN ss : ~(ss[x].expiresAt < now)} |-> ss[s]]
CleanupBlacklist(bl) == [j \in {x \in DOMAIN bl : ~(bl[x].expiresAt < now)} |-> bl[j]]

(***************************************************************************)
(* middleware/auth.js verifyToken (the WebSocket path).  The result holds  *)
(* the decoded claims (ok) and the two stores as the call leaves them.     *)
(***************************************************************************)
Rejected(bl, ss) == [ok |-> FALSE, userId |-> NULL, bl |-> bl, ss |-> ss]

VerifyTokenJwtOnly(token) ==
  IF JwtVerify(token) # "ok" THEN Rejected(tokenBlacklist, activeSessions)
  ELSE [ok |-> TRUE, userId |-> tokens[token].userId,
        bl |-> tokenBlacklist, ss |-> activeSessions]

VerifyToken(token) ==
  IF JwtVerify(token) # "ok" THEN Rejected(tokenBlacklist, activeSessions)
  ELSE LET decoded == tokens[token]
           bl      == IsTokenBlacklistedStore(tokenBlacklist, decoded.jti)
           ss      == GetSessionStore(activeSessions, decoded.sessionId)
       IN  IF IsTokenBlacklisted(tokenBlacklist, decoded.jti)
             THEN Rejected(bl, activeSessions)
           ELSE IF ~IsValidSession(activeSessions, decoded.sessionId)
             THEN Rejected(bl, ss)
           ELSE [ok |-> TRUE, userId |-> decoded.userId, bl |-> bl, ss |-> ss]

(***************************************************************************)
(* middleware/auth.js requireAuth (the HTTP path).  A request carries an   *)
(* Authorization header: none, one that does not start with "Bearer ",     *)
(* "Bearer " with nothing after it, or "Bearer <token>".                   *)
(***************************************************************************)
Headers ==
  {[kind |-> k, token |-> 0] : k \in {"none", "malformed", "empty"}}
    \cup {[kind |-> "bearer", token |-> t] : t \in TokenInputs}

Bearer(t) == [kind |-> "bearer", token |-> t]

Denied(status, error, bl, ss) ==
  [status |-> status, error |-> error, userId |-> NULL, role |-> NULL,
   sessionId |-> 0, jti |-> 0, bl |-> bl, ss |-> ss]

RequireAuth(h) ==
  IF h.kind = "none"
    THEN Denied(401, "Authentication required", tokenBlacklist, activeSessions)
  ELSE IF h.kind = "malformed"
    THEN Denied(401, "Invalid authorization format", tokenBlacklist, activeSessions)
  ELSE IF h.kind = "empty"
    THEN Denied(401, "No token provided", tokenBlacklist, activeSessions)
  ELSE IF JwtVerify(h.token) = "TokenExpiredError"
    THEN Denied(401, "Token expired", tokenBlacklist, activeSessions)
  ELSE IF JwtVerify(h.token) # "ok"
    THEN Denied(401, "Invalid token", tokenBlacklist, activeSessions)
  ELSE LET decoded == tokens[h.token]
           bl      == IsTokenBlacklistedStore(tokenBlacklist, decoded.jti)
           ss      == GetSessionStore(activeSessions, decoded.sessionId)
       IN  IF IsTokenBlacklisted(tokenBlacklist, decoded.jti)
             THEN Denied(401, "Token has been revoked", bl, activeSessions)
           ELSE IF ~IsValidSession(activeSessions, decoded.sessionId)
             THEN Denied(401, "Session expired", bl, ss)
           ELSE IF UsersFindById(decoded.userId) = NULL
             THEN Denied(401, "User not found", bl, ss)
           ELSE [status |-> 200, error |-> "", userId |-> decoded.userId,
                 role |-> users[decoded.userId].role,
                 sessionId |-> decoded.sessionId, jti |-> decoded.jti,
                 bl |-> bl, ss |-> UpdateActivity(ss, decoded.sessionId)]

(***************************************************************************)
(* routes/auth.js                                                          *)
(***************************************************************************)
\* POST /auth/login: passwordOk is the outcome of users.verifyPassword
Login(userId, passwordOk) ==
  /\ Cardinality(DOMAIN tokens) < MaxTokens
  /\ IF userId \in DOMAIN users /\ passwordOk
       THEN LET k     == Cardinality(DOMAIN tokens) + 1
                token == GenerateToken(userId, k, k)
            IN  /\ tokens' = MapSet(tokens, k, token)
                /\ activeSessions' = CreateSession(activeSessions, k, userId, k)
                /\ users' = UpdateStatus(users, userId, "online")
                /\ out' = <<>>
       ELSE /\ UNCHANGED <<tokens, activeSessions, users>>
            /\ out' = <<>>
  /\ UNCHANGED <<now, cfgVars, regVars, tokenBlacklist, rooms, messages, wsVars>>

\* the k-th login is made by the k-th user
LoginInOrder ==
  /\ Cardinality(DOMAIN tokens) < Len(UserOrder)
  /\ Login(UserOrder[Cardinality(DOMAIN tokens) + 1], TRUE)

\* POST /auth/logout
LogoutSessionOnly(auth) ==
  [ss |-> DeleteSession(auth.ss, auth.sessionId), bl |-> auth.bl]

LogoutStores(auth) ==
  [ss |-> DeleteSession(auth.ss, auth.sessionId),
   bl |-> BlacklistToken(auth.bl, auth.jti, now + LogoutBlacklistHours)]

Logout(h) ==
  LET auth == RequireAuth(h)
  IN  /\ IF auth.status # 200
           THEN /\ tokenBlacklist' = auth.bl
                /\ activeSessions' = auth.ss
                /\ UNCHANGED users
                /\ out' = <<>>
           ELSE /\ users' = UpdateStatus(users, auth.userId, "offline")
                /\ activeSessions' = LogoutStores(auth).ss
                /\ tokenBlacklist' = LogoutStores(auth).bl
                /\ out' = <<>>
      /\ UNCHANGED <<now, cfgVars, regVars, tokens, rooms, messages, wsVars>>

\* GET /auth/profile: a bearer-protected read
Profile(h) ==
  LET auth == RequireAuth(h)
  IN  /\ tokenBlacklist' = auth.bl
      /\ activeSessions' = auth.ss
      /\ out' = <<>>
      /\ UNCHANGED <<now, cfgVars, regVars, tokens, dataVars, wsVars>>

\* the setInterval(cleanup, cleanupInterval) callback
Cleanup ==
  /\ activeSessions' = CleanupSessions(activeSessions)
  /\ tokenBlacklist' = CleanupBlacklist(tokenBlacklist)
  /\ out' = <<>>
  /\ UNCHANGED <<now, cfgVars, regVars, tokens, dataVars, wsVars>>

\* the clock advances
Tick ==
  /\ now < MaxTime
  /\ now' = now + 1
  /\ out' = <<>>
  /\ UNCHANGED <<cfgVars, regVars, authVars, dataVars, wsVars>>

(***************************************************************************)
(* POST /auth/register.  The handler yields once, at the await of          *)
(* bcrypt.hash inside createUser, between findExisting and users.push.     *)
(***************************************************************************)
initialEmails ==
  [u \in UserIds |->
     CASE u = "user1" -> "alice@chat.com"
       [] u = "user2" -> "bob@chat.com"
       [] u = "user3" -> "charlie@chat.com"]

\* the request bodies: a missing username, the username of an initial user
\* and two new ones
UsernameInputs == {"", "alice", "dave", "erin"}
EmailInputs == {"alice@chat.com", "dave@chat.com", "Dave@chat.com", "erin@chat.com"}

\* validator.normalizeEmail, on the addresses the model uses
NormalizeEmail(email) == IF email = "Dave@chat.com" THEN "dave@chat.com" ELSE email

Account(username, email) == [username |-> username, email |-> email]

\* the users array: the initial users and the records pushed since
UserRecords ==
  [i \in 1..Len(UserOrder) |->
     Account(initialUsers[UserOrder[i]].username, initialEmails[UserOrder[i]])]
    \o registered

\* findExisting(username, email)
FindExisting(username, email) ==
  \E i \in 1..Len(UserRecords) :
    UserRecords[i].username = username \/ UserRecords[i].email = email

\* the status of the response when it is already decided before the await, 0
\* when the handler goes on to createUser
RegisterStatus(username, email) ==
  IF username = "" THEN 400
  ELSE IF FindExisting(username, NormalizeEmail(email)) THEN 409
  ELSE 0

\* validateRegister, findExisting and the call of createUser up to its await
RegisterRequest(username, email) ==
  /\ Len(registered) + Len(registering) < MaxRegistrations
  /\ registering' =
       IF RegisterStatus(username, email) = 0
         THEN Append(registering, Account(username, NormalizeEmail(email)))
         ELSE registering
  /\ out' = <<>>
  /\ UNCHANGED <<now, cfgVars, authVars, dataVars, wsVars, registered>>

\* bcrypt.hash resolves for the i-th waiting request: users.push and the 201
RegisterInsert(i) ==
  /\ i \in 1..Len(registering)
  /\ registered' = Append(registered, registering[i])
  /\ registering' = [k \in 1..(Len(registering) - 1) |->
                       IF k < i THEN registering[k] ELSE registering[k + 1]]
  /\ out' = <<>>
  /\ UNCHANGED <<now, cfgVars, authVars, dataVars, wsVars>>

(***************************************************************************)
(* data/rooms.js                                                           *)
(***************************************************************************)
initialRooms ==
  [r \in {"general", "private"} |->
     IF r = "general"
       THEN [type |-> "public",  createdBy |-> "admin",
             members |-> {"user1", "user2", "user3"}]
       ELSE [type |-> "private", createdBy |-> "user1", members |-> {"user1"}]]

\* room ids a client may name: the stored rooms and one that does not exist
RoomInputs == DOMAIN initialRooms \cup {"nowhere"}

RoomsFindById(roomId) == IF roomId \in DOMAIN rooms THEN roomId ELSE NULL

CanAccessAnyRoom(roomId, userId) == roomId \in DOMAIN rooms
CanAccess(roomId, userId) ==
  IF roomId \notin DOMAIN rooms THEN FALSE
  ELSE IF rooms[roomId].type = "public" THEN TRUE
  ELSE userId \in rooms[roomId].members

\* rooms whose member set decides access
GuardedRooms == {r \in DOMAIN initialRooms : initialRooms[r].type = "private"}

AddMember(roomId, userId) ==
  /\ roomId \in DOMAIN rooms
  /\ rooms' = [rooms EXCEPT ![roomId].members = @ \cup {userId}]
  /\ out' = <<>>
  /\ UNCHANGED <<now, cfgVars, regVars, authVars, users, messages, wsVars>>

RemoveMember(roomId, userId) ==
  /\ roomId \in DOMAIN rooms
  /\ rooms' = [rooms EXCEPT ![roomId].members = @ \ {userId}]
  /\ out' = <<>>
  /\ UNCHANGED <<now, cfgVars, regVars, authVars, users, messages, wsVars>>

(***************************************************************************)
(* websocket/index.js: the connection manager.                             *)
(*                                                                         *)
(* A socket record holds the ws object's readyState and isAlive and the    *)
(* variable userId of the handleConnection call that owns its listeners.   *)
(* Map and Set iteration follows insertion order in the program; frames    *)
(* of one broadcast are listed here by user and connection number.         *)
(***************************************************************************)
Conns     == 1..MaxConns
ConnOrder == [i \in 1..MaxConns |-> i]
RoomOrder == <<"general", "private", "nowhere">>

QueryTokens == {h \in Headers : h.kind \in {"none", "bearer"}}

Frame(to, type, userId, roomId, arg) ==
  [to |-> to, type |-> type, userId |-> userId, roomId |-> roomId, arg |-> arg]

Event(type, userId, roomId, arg) ==
  [type |-> type, userId |-> userId, roomId |-> roomId, arg |-> arg]

ErrorEvent(message) == Event("error", NULL, NULL, message)

RECURSIVE Flatten(_)
Flatten(ss) == IF ss = <<>> THEN <<>> ELSE Head(ss) \o Flatten(Tail(ss))

IsOpen(sk, c) == sk[c].readyState = "OPEN"

\* sendToClient
SendToClient(sk, c, ev) ==
  IF IsOpen(sk, c) THEN <<Frame(c, ev.type, ev.userId, ev.roomId, ev.arg)>> ELSE <<>>

\* sendToUser: every OPEN socket in the user's set
SendToUser(cl, sk, userId, ev) ==
  IF userId \notin DOMAIN cl THEN <<>>
  ELSE Flatten([i \in 1..MaxConns |->
                  IF i \in cl[userId] THEN SendToClient(sk, i, ev) ELSE <<>>])

BroadcastToAllUsers(cl, sk, subs, roomId, ev, excludeUserId) ==
  Flatten([i \in 1..Len(UserOrder) |->
             IF UserOrder[i] # excludeUserId
               THEN SendToUser(cl, sk, UserOrder[i], ev) ELSE <<>>])

\* broadcastToRoom
BroadcastToRoom(cl, sk, subs, roomId, ev, excludeUserId) ==
  Flatten([i \in 1..Len(UserOrder) |->
             IF UserOrder[i] \in subs[roomId] /\ UserOrder[i] # excludeUserId
               THEN SendToUser(cl, sk, UserOrder[i], ev) ELSE <<>>])

BroadcastToAllSockets(cl, sk, ev, excludeUserId) ==
  Flatten([i \in 1..MaxConns |->
             IF i \in DOMAIN sk THEN SendToClient(sk, i, ev) ELSE <<>>])

\* broadcast
Broadcast(cl, sk, ev, excludeUserId) ==
  Flatten([i \in 1..Len(UserOrder) |->
             IF UserOrder[i] \in DOMAIN cl /\ UserOrder[i] # excludeUserId
               THEN SendToUser(cl, sk, UserOrder[i], ev) ELSE <<>>])

\* broadcastPresence
BroadcastPresence(cl, sk, userId, status) ==
  IF UsersFindById(userId) = NULL THEN <<>>
  ELSE Broadcast(cl, sk, Event("presence_update", userId, NULL, status), NULL)

\* registerClient
RegisterClient(cl, userId, c) ==
  IF userId \in DOMAIN cl THEN [cl EXCEPT ![userId] = @ \cup {c}]
  ELSE MapSet(cl, userId, {c})

\* unregisterClient
UnregisterClient(cl, userId, c) ==
  IF userId \notin DOMAIN cl THEN cl
  ELSE IF cl[userId] \ {c} = {} THEN MapDelete(cl, userId)
  ELSE [cl EXCEPT ![userId] = @ \ {c}]

\* clearTimeout(roomTyping.get(userId)), when the map holds a timeout of userId
ClearTimeout(tm, roomId, userId) ==
  IF userId \in typingUsers[roomId]
    THEN [tm EXCEPT ![roomId][userId] = @ - 1]
    ELSE tm

\* setTimeout(..., config.websocket.typingTimeout)
SetTimeout(tm, roomId, userId) == [tm EXCEPT ![roomId][userId] = @ + 1]

\* handleDisconnect: the stores and frames it leaves, given the registry after
\* unregisterClient
DisconnectTypingStops(cl, sk, userId) ==
  Flatten([i \in 1..Len(RoomOrder) |->
             IF userId \in typingUsers[RoomOrder[i]]
               THEN BroadcastToRoom(cl, sk, roomSubscriptions, RoomOrder[i],
                                    Event("typing_stop", userId, RoomOrder[i], NULL), NULL)
               ELSE <<>>])

HandleDisconnectAlways(cl, sk, userId) ==
  [frames |-> BroadcastPresence(cl, sk, userId, "offline")
                \o DisconnectTypingStops(cl, sk, userId),
   users  |-> UpdateStatus(users, userId, "offline"),
   typing |-> [r \in DOMAIN typingUsers |-> typingUsers[r] \ {userId}],
   timeouts |-> [r \in DOMAIN typingTimeouts |->
                   ClearTimeout(typingTimeouts, r, userId)[r]],
   subs   |-> [r \in DOMAIN roomSubscriptions |-> roomSubscriptions[r] \ {userId}]]

HandleDisconnectPresenceOnly(cl, sk, userId) ==
  IF userId \in DOMAIN cl
    THEN [frames |-> <<>>, users |-> users, typing |-> typingUsers,
          timeouts |-> typingTimeouts, subs |-> roomSubscriptions]
    ELSE [frames |-> BroadcastPresence(cl, sk, userId, "offline"),
          users |-> UpdateStatus(users, userId, "offline"),
          typing |-> typingUsers, timeouts |-> typingTimeouts,
          subs |-> roomSubscriptions]

\* handleDisconnect without the test of clients.has(userId)
HandleDisconnectPerConnection(cl, sk, userId) ==
  HandleDisconnectAlways(cl, sk, userId)

HandleDisconnect(cl, sk, userId) ==
  IF userId \in DOMAIN cl
    THEN [frames |-> <<>>, users |-> users, typing |-> typingUsers,
          timeouts |-> typingTimeouts, subs |-> roomSubscriptions]
    ELSE HandleDisconnectAlways(cl, sk, userId)

\* the stores and frames a handler leaves
Result(frames, cl, sk, subs, typing, us, bl, ss) ==
  [frames |-> frames, cl |-> cl, sk |-> sk, subs |-> subs, typing |-> typing,
   timeouts |-> typingTimeouts, users |-> us, bl |-> bl, ss |-> ss]

Reply(frames) ==
  Result(frames, clients, sockets, roomSubscriptions, typingUsers, users,
         tokenBlacklist, activeSessions)

HandleJoinRoomNoExclude(userId, roomId) ==
  IF RoomsFindById(roomId) = NULL
    THEN Reply(SendToUser(clients, sockets, userId, ErrorEvent("Room not found")))
  ELSE IF ~CanAccess(roomId, userId)
    THEN Reply(SendToUser(clients, sockets, userId, ErrorEvent("Access denied")))
  ELSE LET subs == [roomSubscriptions EXCEPT ![roomId] = @ \cup {userId}]
       IN  [Reply(SendToUser(clients, sockets, userId,
                             Event("joined_room", NULL, roomId, NULL))
                  \o BroadcastToRoom(clients, sockets, subs, roomId,
                                     Event("user_joined", userId, roomId, NULL), NULL))
              EXCEPT !.subs = subs]

\* handleJoinRoom
HandleJoinRoom(userId, roomId) ==
  IF RoomsFindById(roomId) = NULL
    THEN Reply(SendToUser(clients, sockets, userId, ErrorEvent("Room not found")))
  ELSE IF ~CanAccess(roomId, userId)
    THEN Reply(SendToUser(clients, sockets, userId, ErrorEvent("Access denied")))
  ELSE LET subs == [roomSubscriptions EXCEPT ![roomId] = @ \cup {userId}]
       IN  [Reply(SendToUser(clients, sockets, userId,
                             Event("joined_room", NULL, roomId, NULL))
                  \o BroadcastToRoom(clients, sockets, subs, roomId,
                                     Event("user_joined", userId, roomId, NULL), userId))
              EXCEPT !.subs = subs]

\* handleLeaveRoom
HandleLeaveRoom(userId, roomId) ==
  LET subs == [roomSubscriptions EXCEPT ![roomId] = @ \ {userId}]
  IN  [Reply(SendToUser(clients, sockets, userId, Event("left_room", NULL, roomId, NULL))
             \o BroadcastToRoom(clients, sockets, subs, roomId,
                                Event("user_left", userId, roomId, NULL), NULL))
         EXCEPT !.subs = subs]

\* handleTyping, given the timeouts left by its "Clear existing timeout" block
HandleTypingFrom(tm, userId, roomId, isTyping) ==
  IF isTyping
    THEN [Reply(BroadcastToRoom(clients, sockets, roomSubscriptions, roomId,
                                Event("typing_start", userId, roomId, NULL), userId))
            EXCEPT !.typing = [typingUsers EXCEPT ![roomId] = @ \cup {userId}],
                   !.timeouts = SetTimeout(tm, roomId, userId)]
    ELSE [Reply(BroadcastToRoom(clients, sockets, roomSubscriptions, roomId,
                                Event("typing_stop", userId, roomId, NULL), userId))
            EXCEPT !.typing = [typingUsers EXCEPT ![roomId] = @ \ {userId}],
                   !.timeouts = tm]

HandleTypingStacking(userId, roomId, isTyping) ==
  HandleTypingFrom(typingTimeouts, userId, roomId, isTyping)

HandleTypingNoCancel(userId, roomId, isTyping) ==
  IF isTyping
    THEN HandleTypingFrom(ClearTimeout(typingTimeouts, roomId, userId),
                          userId, roomId, isTyping)
    ELSE [HandleTypingFrom(typingTimeouts, userId, roomId, isTyping)
            EXCEPT !.typing = typingUsers]

\* handleTyping: the pending timer of (roomId, userId) is cleared first
HandleTyping(userId, roomId, isTyping) ==
  HandleTypingFrom(ClearTimeout(typingTimeouts, roomId, userId), userId, roomId, isTyping)

\* handlePresenceUpdate
ValidStatuses == {"online", "offline", "away", "busy"}
StatusInputs  == ValidStatuses \cup {"invisible"}

HandlePresenceUpdateNoValidation(userId, status) ==
  [Reply(BroadcastPresence(clients, sockets, userId, status))
     EXCEPT !.users = UpdateStatus(users, userId, status)]

HandlePresenceUpdate(userId, status) ==
  IF status \notin ValidStatuses
    THEN Reply(SendToUser(clients, sockets, userId, ErrorEvent("Invalid status")))
    ELSE [Reply(BroadcastPresence(clients, sockets, userId, status))
            EXCEPT !.users = UpdateStatus(users, userId, status)]

\* the frames a client may send
Msg(type, token, roomId, isTyping, status) ==
  [type |-> type, token |-> token, roomId |-> roomId, isTyping |-> isTyping,
   status |-> status]

WsMessages ==
  {Msg("auth", t, NULL, FALSE, NULL) : t \in TokenInputs}
    \cup {Msg(ty, 0, r, FALSE, NULL) : ty \in {"join_room", "leave_room"}, r \in RoomInputs}
    \cup {Msg("typing", 0, r, b, NULL) : r \in RoomInputs, b \in BOOLEAN}
    \cup {Msg("presence", 0, NULL, FALSE, st) : st \in StatusInputs}
    \cup {Msg(ty, 0, NULL, FALSE, NULL) : ty \in {"ping", "bogus", "not json"}}

\* the auth branch of handleMessage: userId and username are assigned to the
\* parameters of this call only
HandleAuthMessage(c, token) ==
  LET v == VerifyToken(token)
  IN  IF v.ok
        THEN LET cl == RegisterClient(clients, v.userId, c)
             IN  Result(SendToClient(sockets, c, Event("authenticated", v.userId, NULL, NULL))
                          \o BroadcastPresence(cl, sockets, v.userId, "online"),
                        cl, sockets, roomSubscriptions, typingUsers, users, v.bl, v.ss)
        ELSE Result(SendToClient(sockets, c, ErrorEvent("Invalid token")),
                    clients,
                    [sockets EXCEPT ![c].readyState =
                        IF @ = "OPEN" THEN "CLOSING" ELSE @],
                    roomSubscriptions, typingUsers, users, v.bl, v.ss)

\* the switch of handleMessage
Dispatch(c, userId, m) ==
  CASE m.type = "join_room"  -> HandleJoinRoom(userId, m.roomId)
    [] m.type = "leave_room" -> HandleLeaveRoom(userId, m.roomId)
    [] m.type = "typing"     -> HandleTyping(userId, m.roomId, m.isTyping)
    [] m.type = "presence"   -> HandlePresenceUpdate(userId, m.status)
    [] m.type = "ping"       -> Reply(SendToClient(sockets, c,
                                        Event("pong", NULL, NULL, NULL)))
    [] OTHER                 -> Reply(SendToClient(sockets, c,
                                        ErrorEvent("Unknown message type")))

HandleMessageNoAuthCheck(c, userId, m) ==
  IF m.type = "not json"
    THEN Reply(SendToClient(sockets, c, ErrorEvent("Invalid message format")))
  ELSE IF userId = NULL /\ m.type = "auth"
    THEN HandleAuthMessage(c, m.token)
  ELSE Dispatch(c, userId, m)

\* handleMessage(ws, data, userId, username), userId being the variable of the
\* handleConnection call that registered the listener
HandleMessage(c, userId, m) ==
  IF m.type = "not json"
    THEN Reply(SendToClient(sockets, c, ErrorEvent("Invalid message format")))
  ELSE IF userId = NULL /\ m.type = "auth"
    THEN HandleAuthMessage(c, m.token)
  ELSE IF userId = NULL
    THEN Reply(SendToClient(sockets, c, ErrorEvent("Authentication required")))
  ELSE Dispatch(c, userId, m)

Commit(r) ==
  /\ out' = r.frames
  /\ clients' = r.cl
  /\ sockets' = r.sk
  /\ roomSubscriptions' = r.subs
  /\ typingUsers' = r.typing
  /\ typingTimeouts' = r.timeouts
  /\ users' = r.users
  /\ tokenBlacklist' = r.bl
  /\ activeSessions' = r.ss
  /\ UNCHANGED <<now, cfgVars, regVars, tokens, rooms, messages>>

\* ws.on('message')
WsMessage(c, m) ==
  /\ c \in DOMAIN sockets
  /\ sockets[c].readyState \in {"OPEN", "CLOSING"}
  /\ Commit(HandleMessage(c, sockets[c].userId, m))

\* handleConnection: q is the token query parameter of the upgrade request
Socket(readyState, userId) ==
  [readyState |-> readyState, userId |-> userId, isAlive |-> TRUE]

HandleConnection(c, q) ==
  IF q.kind = "none"
    THEN [Reply(<<>>) EXCEPT !.sk = MapSet(sockets, c, Socket("OPEN", NULL))]
  ELSE LET v == VerifyToken(q.token)
       IN  IF v.ok
             THEN LET cl == RegisterClient(clients, v.userId, c)
                      sk == MapSet(sockets, c, Socket("OPEN", v.userId))
                  IN  Result(SendToClient(sk, c, Event("connected", v.userId, NULL, NULL))
                               \o BroadcastPresence(cl, sk, v.userId, "online"),
                             cl, sk, roomSubscriptions, typingUsers, users, v.bl, v.ss)
             \* ws.close(4001) before any listener is attached: nothing the
             \* socket does later reaches the manager
             ELSE Result(<<>>, clients, MapSet(sockets, c, Socket("CLOSED", NULL)),
                         roomSubscriptions, typingUsers, users, v.bl, v.ss)

WsConnect(q) ==
  /\ Cardinality(DOMAIN sockets) < MaxConns
  /\ Commit(HandleConnection(Cardinality(DOMAIN sockets) + 1, q))

\* ws.on('close'): the peer closed, the connection dropped, or a close or
\* terminate started by the server completed
CloseListenerNoCheck(c, userId, sk) ==
  LET cl == UnregisterClient(clients, userId, c)
      d  == HandleDisconnect(cl, sk, userId)
  IN  [Result(d.frames, cl, sk, d.subs, d.typing, d.users,
              tokenBlacklist, activeSessions)
         EXCEPT !.timeouts = d.timeouts]

CloseListener(c, userId, sk) ==
  IF userId = NULL THEN [Reply(<<>>) EXCEPT !.sk = sk]
  ELSE CloseListenerNoCheck(c, userId, sk)

WsClose(c) ==
  /\ c \in DOMAIN sockets
  /\ sockets[c].readyState # "CLOSED"
  /\ Commit(CloseListener(c, sockets[c].userId,
                          [sockets EXCEPT ![c].readyState = "CLOSED"]))

\* the typing timer of (roomId, userId) fires
TimerFire(roomId, userId) ==
  /\ typingTimeouts[roomId][userId] > 0
  /\ Commit([Reply(BroadcastToRoom(clients, sockets, roomSubscriptions, roomId,
                                   Event("typing_stop", userId, roomId, NULL), NULL))
               EXCEPT !.typing = [typingUsers EXCEPT ![roomId] = @ \ {userId}],
                      !.timeouts = [typingTimeouts EXCEPT ![roomId][userId] = @ - 1]])

\* ws.on('pong')
Pong(c) ==
  /\ c \in DOMAIN sockets
  /\ sockets[c].readyState = "OPEN"
  /\ Commit([Reply(<<>>) EXCEPT !.sk = [sockets EXCEPT ![c].isAlive = TRUE]])

\* the heartbeat interval callback, over wss.clients
HeartbeatSocket(sock) ==
  IF sock.readyState = "CLOSED" THEN sock
  ELSE IF ~sock.isAlive THEN [sock EXCEPT !.readyState = "TERMINATED"]
  ELSE [sock EXCEPT !.isAlive = FALSE]

Heartbeat ==
  Commit([Reply(<<>>) EXCEPT !.sk = [c \in DOMAIN sockets |-> HeartbeatSocket(sockets[c])]])

\* broadcastNewMessage(roomId, messageData)
BroadcastNewMessage(roomId, messageId) ==
  Commit(Reply(BroadcastToRoom(clients, sockets, roomSubscriptions, roomId,
                               Event("new_message", NULL, roomId, messageId), NULL)))

(***************************************************************************)
(* data/messages.js and POST /messages/:roomId                             *)
(***************************************************************************)
Message(id, roomId, userId, content) ==
  [id |-> id, roomId |-> roomId, userId |-> userId, content |-> content,
   edited |-> FALSE, deleted |-> FALSE, deletedBy |-> NULL, editHistory |-> <<>>]

initialMessages ==
  <<Message(1, "general", "user1", "Welcome to the chat!"),
    Message(2, "general", "user2", "Hello everyone!"),
    Message(3, "private", "user1", "This is a private message")>>

\* createMessage: the new message takes a fresh id
CreateMessage(ms, roomId, userId, content) ==
  Append(ms, Message(Len(ms) + 1, roomId, userId, content))

\* request bodies: content missing or blank, and a valid text
ContentInputs == {"", "hello"}

\* the status POST /messages/:roomId answers with: requireAuth, validateRoomId,
\* validateMessage, messageLimiter (limited: the limiter's window is full), then
\* the handler
PostMessageStatus(h, roomId, content, limited) ==
  LET auth == RequireAuth(h)
  IN  IF auth.status # 200 THEN auth.status
      ELSE IF content = "" THEN 400
      ELSE IF limited THEN 429
      ELSE IF RoomsFindById(roomId) = NULL THEN 404
      ELSE IF ~CanAccess(roomId, auth.userId) THEN 403
      ELSE 201

\* the handler stores the message and answers; it writes to no socket
PostMessage(h, roomId, content, limited) ==
  LET auth == RequireAuth(h)
  IN  /\ Len(messages) < MaxMessages
      /\ tokenBlacklist' = auth.bl
      /\ activeSessions' = auth.ss
      /\ messages' = IF PostMessageStatus(h, roomId, content, limited) = 201
                        THEN CreateMessage(messages, roomId, auth.userId, content)
                        ELSE messages
      /\ out' = <<>>
      /\ UNCHANGED <<now, cfgVars, regVars, tokens, users, rooms, wsVars>>

(***************************************************************************)
(* The read routes of routes/messages.js.  A response is the status and    *)
(* the ids of the messages whose content it carries (sanitizeMessage keeps *)
(* the content of every message it is given).                              *)
(***************************************************************************)
\* String.prototype.toLowerCase, on the strings the model uses
ToLowerCase(str) ==
  CASE str = "PRIVATE"                   -> "private"
    [] str = "Welcome to the chat!"      -> "welcome to the chat!"
    [] str = "Hello everyone!"           -> "hello everyone!"
    [] str = "This is a private message" -> "this is a private message"
    [] OTHER                             -> str

\* String.prototype.includes, on lower-case strings the model uses
Includes(str, sub) ==
  \/ sub = ""
  \/ str = sub
  \/ str = "welcome to the chat!" /\ sub = "chat"
  \/ str = "hello everyone!" /\ sub = "hello"
  \/ str = "hello again" /\ sub = "hello"
  \/ str = "this is a private message" /\ sub = "private"

\* String.prototype.trim, on the queries and bodies the model uses
Trim(str) ==
  CASE str = " "             -> ""
    [] str = " hello again " -> "hello again"
    [] OTHER                 -> str

\* the q parameter of a search: missing, blank, and three terms
QueryInputs == {"", " ", "PRIVATE", "hello", "chat"}

\* the roomId query parameter of a search: missing, or a room id
RoomFilters == RoomInputs \cup {NULL}

MessageIdInputs == 1..MaxMessages

\* the ids of the messages ms, in order
Ids(ms) == [k \in 1..Len(ms) |-> ms[k].id]

\* getByRoom with the default pagination
GetByRoom(roomId) ==
  LET Test(m) == m.roomId = roomId /\ ~m.deleted
  IN  Ids(SelectSeq(messages, Test))

MessagesFindByIdWithDeleted(messageId, roomId) ==
  LET Test(m) == m.id = messageId
      found == Ids(SelectSeq(messages, Test))
  IN  IF found = <<>> THEN <<>>
      ELSE IF roomId # NULL /\ messages[found[1]].roomId # roomId THEN <<>>
      ELSE <<found[1]>>

\* findById(messageId, roomId): <<>> for null, <<id>> for the message found
MessagesFindById(messageId, roomId) ==
  LET Test(m) == m.id = messageId /\ ~m.deleted
      found == Ids(SelectSeq(messages, Test))
  IN  IF found = <<>> THEN <<>>
      ELSE IF roomId # NULL /\ messages[found[1]].roomId # roomId THEN <<>>
      ELSE <<found[1]>>

\* searchMessages(query, roomId)
SearchMessages(query, roomId) ==
  LET Test(m) ==
        /\ ~m.deleted
        /\ roomId # NULL => m.roomId = roomId
        /\ Includes(ToLowerCase(m.content), ToLowerCase(query))
  IN  Ids(SelectSeq(messages, Test))

Response(status, ids) == [status |-> status, ids |-> ids]

\* GET /messages/search
SearchResponse(h, q, roomId) ==
  LET auth == RequireAuth(h)
  IN  IF auth.status # 200 THEN Response(auth.status, <<>>)
      ELSE IF Trim(q) = "" THEN Response(400, <<>>)
      ELSE IF roomId # NULL /\ RoomsFindById(roomId) = NULL THEN Response(404, <<>>)
      ELSE IF roomId # NULL /\ ~CanAccess(roomId, auth.userId) THEN Response(403, <<>>)
      ELSE Response(200, SearchMessages(Trim(q), roomId))

\* GET /messages/:roomId
RoomResponse(h, roomId) ==
  LET auth == RequireAuth(h)
  IN  IF auth.status # 200 THEN Response(auth.status, <<>>)
      ELSE IF RoomsFindById(roomId) = NULL THEN Response(404, <<>>)
      ELSE IF rooms[roomId].type = "private" /\ ~CanAccess(roomId, auth.userId)
        THEN Response(403, <<>>)
      ELSE Response(200, GetByRoom(roomId))

\* GET /messages/:roomId/:messageId
MessageResponse(h, roomId, messageId) ==
  LET auth == RequireAuth(h)
  IN  IF auth.status # 200 THEN Response(auth.status, <<>>)
      ELSE IF RoomsFindById(roomId) = NULL THEN Response(404, <<>>)
      ELSE IF rooms[roomId].type = "private" /\ ~CanAccess(roomId, auth.userId)
        THEN Response(403, <<>>)
      ELSE IF MessagesFindById(messageId, roomId) = <<>> THEN Response(404, <<>>)
      ELSE Response(200, MessagesFindById(messageId, roomId))

\* what a read request leaves in the stores: requireAuth's lazy deletions and
\* updateActivity
ReadRequest(h) ==
  /\ tokenBlacklist' = RequireAuth(h).bl
  /\ activeSessions' = RequireAuth(h).ss
  /\ out' = <<>>
  /\ UNCHANGED <<now, cfgVars, regVars, tokens, dataVars, wsVars>>

GetSearch(h, q, roomId) ==
  /\ SearchResponse(h, q, roomId).status \in {200, 400, 401, 403, 404}
  /\ ReadRequest(h)

GetRoomMessages(h, roomId) ==
  /\ RoomResponse(h, roomId).status \in {200, 401, 403, 404}
  /\ ReadRequest(h)

GetMessage(h, roomId, messageId) ==
  /\ MessageResponse(h, roomId, messageId).status \in {200, 401, 403, 404}
  /\ ReadRequest(h)

(***************************************************************************)
(* Editing and deleting: data/messages.js updateMessage, deleteMessage and *)
(* isOwner, and the PUT and DELETE routes of the router built on them.     *)
(***************************************************************************)
\* the position of the message messages.find(m => m.id === id && !m.deleted)
\* returns, 0 when it returns undefined
FindLive(ms, messageId) ==
  LET hits == {k \in 1..Len(ms) : ms[k].id = messageId /\ ~ms[k].deleted}
  IN  IF hits = {} THEN 0 ELSE CHOOSE k \in hits : \A j \in hits : k <= j

EditEntry(previousContent, editedBy) ==
  [previousContent |-> previousContent, editedAt |-> now, editedBy |-> editedBy]

UpdateMessageNoHistory(ms, messageId, newContent, editedBy) ==
  LET k == FindLive(ms, messageId)
  IN  IF k = 0 THEN ms
      ELSE [ms EXCEPT ![k].content = newContent, ![k].edited = TRUE]

\* updateMessage(messageId, newContent, editedBy): the store afterwards
UpdateMessage(ms, messageId, newContent, editedBy) ==
  LET k == FindLive(ms, messageId)
  IN  IF k = 0 THEN ms
      ELSE [ms EXCEPT ![k].editHistory = Append(@, EditEntry(ms[k].content, editedBy)),
                      ![k].content = newContent,
                      ![k].edited = TRUE]

\* deleteMessage(messageId, deletedBy): the store afterwards
DeleteMessage(ms, messageId, deletedBy) ==
  LET k == FindLive(ms, messageId)
  IN  IF k = 0 THEN ms
      ELSE [ms EXCEPT ![k].deleted = TRUE, ![k].deletedBy = deletedBy]

\* messages.isOwner(messageId, userId)
IsOwner(messageId, userId) ==
  /\ MessagesFindById(messageId, NULL) # <<>>
  /\ messages[MessagesFindById(messageId, NULL)[1]].userId = userId

\* rooms.isOwner(roomId, userId)
RoomsIsOwner(roomId, userId) ==
  roomId \in DOMAIN rooms /\ rooms[roomId].createdBy = userId

\* request bodies of an edit: blank, a text, and a text with spaces around it
EditInputs == {"", "hello", " hello again "}

\* edits made so far, over all messages
EditCount(ms) ==
  LET RECURSIVE Sum(_)
      Sum(k) == IF k = 0 THEN 0 ELSE Len(ms[k].editHistory) + Sum(k - 1)
  IN  Sum(Len(ms))

\* the status PUT /messages/:roomId/:messageId answers with: requireAuth,
\* validateMessage, then the handler
PutMessageStatus(h, roomId, messageId, content) ==
  LET auth == RequireAuth(h)
  IN  IF auth.status # 200 THEN auth.status
      ELSE IF Trim(content) = "" THEN 400
      ELSE IF RoomsFindById(roomId) = NULL THEN 404
      ELSE IF MessagesFindById(messageId, roomId) = <<>> THEN 404
      ELSE IF ~IsOwner(messageId, auth.userId) THEN 403
      ELSE 200

PutMessage(h, roomId, messageId, content) ==
  LET auth == RequireAuth(h)
  IN  /\ EditCount(messages) < MaxEdits
      /\ tokenBlacklist' = auth.bl
      /\ activeSessions' = auth.ss
      /\ messages' = IF PutMessageStatus(h, roomId, messageId, content) = 200
                        THEN UpdateMessage(messages, messageId, Trim(content), auth.userId)
                        ELSE messages
      /\ out' = <<>>
      /\ UNCHANGED <<now, cfgVars, regVars, tokens, users, rooms, wsVars>>

DeleteMessageStatusOwnerOnly(h, roomId, messageId) ==
  LET auth == RequireAuth(h)
  IN  IF auth.status # 200 THEN auth.status
      ELSE IF RoomsFindById(roomId) = NULL THEN 404
      ELSE IF MessagesFindById(messageId, roomId) = <<>> THEN 404
      ELSE IF ~IsOwner(messageId, auth.userId) /\ ~RoomsIsOwner(roomId, auth.userId)
        THEN 403
      ELSE 200

\* the status DELETE /messages/:roomId/:messageId answers with
DeleteMessageStatus(h, roomId, messageId) ==
  LET auth == RequireAuth(h)
  IN  IF auth.status # 200 THEN auth.status
      ELSE IF RoomsFindById(roomId) = NULL THEN 404
      ELSE IF MessagesFindById(messageId, roomId) = <<>> THEN 404
      ELSE IF /\ ~IsOwner(messageId, auth.userId)
              /\ ~RoomsIsOwner(roomId, auth.userId)
              /\ auth.role \notin {"admin", "moderator"}
        THEN 403
      ELSE 200

DeleteMessageRoute(h, roomId, messageId) ==
  LET auth == RequireAuth(h)
  IN  /\ tokenBlacklist' = auth.bl
      /\ activeSessions' = auth.ss
      /\ messages' = IF DeleteMessageStatus(h, roomId, messageId) = 200
                        THEN DeleteMessage(messages, messageId, auth.userId)
                        ELSE messages
      /\ out' = <<>>
      /\ UNCHANGED <<now, cfgVars, regVars, tokens, users, rooms, wsVars>>

(***************************************************************************)
(* The router of the file routes/messages.js.  It keeps its own messages   *)
(* array and chatRooms, which start as the three messages and two rooms of *)
(* the data modules, and reads the token itself.  With this router mounted *)
(* at /api/messages its array is the message store.                        *)
(***************************************************************************)
chatRooms == initialRooms

\* getCurrentUser(req): <<>> for null, else the payload jwt.verify returns
GetCurrentUser(h) ==
  IF h.kind = "none" THEN <<>>
  ELSE IF JwtVerify(h.token) = "ok" THEN <<tokens[h.token]>>
  ELSE <<>>

\* GET /messages: the status of the answer
LegacyListRoomsStatus(h) == 200

\* GET /messages/:roomId
LegacyRoomResponse(h, roomId) ==
  LET currentUser == GetCurrentUser(h)
  IN  IF roomId \notin DOMAIN chatRooms THEN Response(404, <<>>)
      ELSE IF /\ chatRooms[roomId].type = "private"
              /\ currentUser # <<>>
              /\ currentUser[1].userId \notin chatRooms[roomId].members
        THEN Response(403, <<>>)
      ELSE Response(200, GetByRoom(roomId))

\* POST /messages/:roomId
LegacyPostMessageStatus(h, roomId, content) ==
  IF Trim(content) = "" THEN 400
  ELSE IF roomId \notin DOMAIN chatRooms THEN 404
  ELSE 201

LegacyPostMessage(h, roomId, content) ==
  LET currentUser == GetCurrentUser(h)
      userId == IF currentUser # <<>> THEN currentUser[1].userId ELSE "anonymous"
  IN  /\ Len(messages) < MaxMessages
      /\ messages' = IF LegacyPostMessageStatus(h, roomId, content) = 201
                        THEN CreateMessage(messages, roomId, userId, Trim(content))
                        ELSE messages
      /\ out' = <<>>
      /\ UNCHANGED <<now, cfgVars, regVars, authVars, users, rooms, wsVars>>

\* messages.findIndex(m => m.id === messageId && m.roomId === roomId && !m.deleted),
\* 0 for -1
FindIndex(messageId, roomId) ==
  LET hits == {k \in 1..Len(messages) :
                 /\ messages[k].id = messageId
                 /\ messages[k].roomId = roomId
                 /\ ~messages[k].deleted}
  IN  IF hits = {} THEN 0 ELSE CHOOSE k \in hits : \A j \in hits : k <= j

\* PUT /messages/:roomId/:messageId
LegacyPutMessageStatus(h, roomId, messageId, content) ==
  IF GetCurrentUser(h) = <<>> THEN 401
  ELSE IF FindIndex(messageId, roomId) = 0 THEN 404
  ELSE IF Trim(content) = "" THEN 400
  ELSE 200

LegacyPutMessage(h, roomId, messageId, content) ==
  /\ EditCount(messages) < MaxEdits
  /\ messages' = IF LegacyPutMessageStatus(h, roomId, messageId, content) = 200
                    THEN UpdateMessage(messages, messageId, Trim(content),
                                       GetCurrentUser(h)[1].userId)
                    ELSE messages
  /\ out' = <<>>
  /\ UNCHANGED <<now, cfgVars, regVars, authVars, users, rooms, wsVars>>

(***************************************************************************)
(* Initial state: the module-level data of the program after start().      *)
(***************************************************************************)
Init ==
  /\ now = 0
  /\ \E c \in Configs : jwtExpiresIn = c[1] /\ sessionMaxAge = c[2]
  /\ tokens = EmptyMap
  /\ activeSessions = EmptyMap
  /\ tokenBlacklist = EmptyMap
  /\ users = initialUsers
  /\ rooms = initialRooms
  /\ messages = initialMessages
  /\ sockets = EmptyMap
  /\ clients = EmptyMap
  /\ roomSubscriptions = [r \in RoomInputs |-> {}]
  /\ typingUsers = [r \in RoomInputs |-> {}]
  /\ typingTimeouts = [r \in RoomInputs |-> [u \in UserIds |-> 0]]
  /\ registered = <<>>
  /\ registering = <<>>
  /\ out = <<>>

(***************************************************************************)
(* The authentication subsystem on its own: logins, logouts, protected     *)
(* requests, the cleanup sweep and the passage of time.                    *)
(***************************************************************************)
NextAuth ==
  \/ \E u \in UserIds, ok \in BOOLEAN : Login(u, ok)
  \/ \E h \in Headers : Logout(h)
  \/ \E h \in Headers : Profile(h)
  \/ Cleanup
  \/ Tick

SpecAuth == Init /\ [][NextAuth]_vars

(***************************************************************************)
(* The connection manager, at one instant of the clock (a typing timeout   *)
(* is 3 s, a heartbeat interval 30 s) and under the default configuration. *)
(* Each specification below runs the handlers of one part of the manager.  *)
(***************************************************************************)
InitDefault ==
  /\ Init
  /\ jwtExpiresIn = DefaultJwtExpiresIn
  /\ sessionMaxAge = DefaultSessionMaxAge

\* messages by kind
AuthMessages   == {m \in WsMessages : m.type = "auth"}
RoomMessages   == {m \in WsMessages : m.type \in {"join_room", "leave_room"}}
TypingMessages == {m \in WsMessages : m.type = "typing"}
OtherMessages  == {m \in WsMessages : m.type \in {"presence", "ping", "bogus", "not json"}}

\* connection life cycle: handshake, auth message, dispatch, presence, close
NextConn ==
  \/ LoginInOrder
  \/ \E q \in QueryTokens : WsConnect(q)
  \/ \E c \in Conns, m \in AuthMessages \cup OtherMessages : WsMessage(c, m)
  \/ \E c \in Conns, m \in RoomMessages \cup TypingMessages :
       m.roomId = "general" /\ WsMessage(c, m)
  \/ \E c \in Conns : WsClose(c)
  \/ \E r \in RoomInputs, u \in UserIds : TimerFire(r, u)
  \/ \E r \in RoomInputs, i \in 1..MaxMessages :
       i <= Len(messages) /\ BroadcastNewMessage(r, i)

SpecConn == InitDefault /\ [][NextConn]_vars

\* typing indicators: subscriptions, typing messages, timers, close
NextTyping ==
  \/ LoginInOrder
  \/ \E q \in QueryTokens : WsConnect(q)
  \/ \E c \in Conns, m \in AuthMessages \cup RoomMessages \cup TypingMessages :
       WsMessage(c, m)
  \/ \E c \in Conns : WsClose(c)
  \/ \E r \in RoomInputs, u \in UserIds : TimerFire(r, u)

SpecTyping == InitDefault /\ [][NextTyping]_vars

\* rooms: membership, subscriptions and the fan-out of a stored message
NextRoom ==
  \/ LoginInOrder
  \/ \E q \in QueryTokens : WsConnect(q)
  \/ \E c \in Conns, m \in AuthMessages \cup RoomMessages : WsMessage(c, m)
  \/ \E c \in Conns : WsClose(c)
  \/ \E r \in GuardedRooms, u \in UserIds : AddMember(r, u)
  \/ \E r \in GuardedRooms, u \in UserIds : RemoveMember(r, u)
  \/ \E r \in RoomInputs, i \in 1..MaxMessages :
       i <= Len(messages) /\ BroadcastNewMessage(r, i)

SpecRoom == InitDefault /\ [][NextRoom]_vars

\* posting over HTTP while sockets are subscribed
NextPost ==
  \/ LoginInOrder
  \/ \E q \in QueryTokens : WsConnect(q)
  \/ \E c \in Conns, m \in AuthMessages \cup RoomMessages : WsMessage(c, m)
  \/ \E c \in Conns : WsClose(c)
  \/ \E t \in TokenInputs, r \in RoomInputs, b \in ContentInputs, l \in BOOLEAN :
       PostMessage(Bearer(t), r, b, l)
  \/ \E r \in RoomInputs, i \in 1..MaxMessages :
       i <= Len(messages) /\ BroadcastNewMessage(r, i)

SpecPost == InitDefault /\ [][NextPost]_vars

\* the message routes over HTTP, with logins, logouts and membership changes
NextMessages ==
  \/ LoginInOrder
  \/ \E t \in TokenIds : Logout(Bearer(t))
  \/ \E r \in GuardedRooms, u \in UserIds : AddMember(r, u)
  \/ \E r \in GuardedRooms, u \in UserIds : RemoveMember(r, u)
  \/ \E t \in TokenInputs, r \in RoomInputs, b \in ContentInputs, l \in BOOLEAN :
       PostMessage(Bearer(t), r, b, l)
  \/ \E t \in TokenInputs, q \in QueryInputs, r \in RoomFilters :
       GetSearch(Bearer(t), q, r)
  \/ \E t \in TokenInputs, r \in RoomInputs : GetRoomMessages(Bearer(t), r)
  \/ \E t \in TokenInputs, r \in RoomInputs, i \in MessageIdInputs :
       GetMessage(Bearer(t), r, i)

SpecMessages == InitDefault /\ [][NextMessages]_vars

\* the message store under posts, edits and deletions, any user logging in
NextEdit ==
  \/ \E u \in UserIds : Login(u, TRUE)
  \/ \E t \in TokenInputs, r \in RoomInputs : PostMessage(Bearer(t), r, "hello", FALSE)
  \/ \E t \in TokenInputs, r \in RoomInputs, i \in MessageIdInputs, b \in EditInputs :
       PutMessage(Bearer(t), r, i, b)
  \/ \E t \in TokenInputs, r \in RoomInputs, i \in MessageIdInputs :
       DeleteMessageRoute(Bearer(t), r, i)

SpecEdit == InitDefault /\ [][NextEdit]_vars

\* the router of routes/messages.js under logins, logouts, posts and edits
NextLegacy ==
  \/ LoginInOrder
  \/ \E t \in TokenIds : Logout(Bearer(t))
  \/ \E h \in Headers, r \in RoomInputs, b \in ContentInputs : LegacyPostMessage(h, r, b)
  \/ \E h \in Headers, r \in RoomInputs, i \in MessageIdInputs, b \in EditInputs :
       LegacyPutMessage(h, r, i, b)

SpecLegacy == InitDefault /\ [][NextLegacy]_vars

\* registrations in flight
NextRegister ==
  \/ \E n \in UsernameInputs, e \in EmailInputs : RegisterRequest(n, e)
  \/ \E i \in 1..MaxRegistrations : RegisterInsert(i)

SpecRegister == InitDefault /\ [][NextRegister]_vars

\* dead-peer detection: sweeps, pongs and the close of terminated sockets
NextHeartbeat ==
  \/ LoginInOrder
  \/ \E q \in QueryTokens : WsConnect(q)
  \/ \E c \in Conns, m \in AuthMessages : WsMessage(c, m)
  \/ \E c \in Conns : WsClose(c)
  \/ \E c \in Conns : Pong(c)
  \/ Heartbeat

SpecHeartbeat == InitDefault /\ [][NextHeartbeat]_vars

\* logout over HTTP while the user's sockets are open
NextRevoke ==
  \/ LoginInOrder
  \/ \E t \in TokenIds : Logout(Bearer(t))
  \/ \E q \in QueryTokens : WsConnect(q)
  \/ \E c \in Conns, m \in RoomMessages \cup TypingMessages :
       m.roomId = "general" /\ WsMessage(c, m)
  \/ \E c \in Conns : WsClose(c)
  \/ \E i \in 1..MaxMessages :
       i <= Len(messages) /\ BroadcastNewMessage("general", i)

SpecRevoke == InitDefault /\ [][NextRevoke]_vars

\* the whole program
Next ==
  \/ NextAuth
  \/ NextConn
  \/ NextTyping
  \/ NextRoom
  \/ NextPost
  \/ NextMessages
  \/ NextEdit
  \/ NextLegacy
  \/ NextRegister
  \/ NextHeartbeat
  \/ NextRevoke

Spec == Init /\ [][Next]_vars

(***************************************************************************)
(* Claims about the authentication subsystem.                              *)
(***************************************************************************)
\* a logout request that passes requireAuth and runs the handler's body
LogoutOk(h) == h.kind = "bearer" /\ RequireAuth(h).status = 200 /\ Logout(h)

\* C1: in the state a successful logout with token T leaves (no cleanup sweep
\* has run, T's signature and expiry still verify), verifyToken(T) returns null
\* and requireAuth answers 401 for T.
C1_LogoutThenVerifyRejects ==
  [][\A h \in Headers :
       LogoutOk(h) =>
         (/\ JwtVerify(h.token) = "ok"
          /\ ~VerifyToken(h.token).ok
          /\ RequireAuth(h).status = 401)']_vars

\* a token that still verifies as a JWT, whose jti is blacklisted and whose
\* session is gone: a logout has acted on it
C1_Witness ==
  \E t \in DOMAIN tokens :
    /\ JwtVerify(t) = "ok"
    /\ tokens[t].jti \in DOMAIN tokenBlacklist
    /\ tokens[t].sessionId \notin DOMAIN activeSessions
    /\ ~VerifyToken(t).ok

\* C2: whenever verify (either path) accepts a token, the token's jti is absent
\* from the revocation set and its sessionId names a session that exists and
\* has not expired.
C2_AcceptNeedsBothChecks ==
  \A t \in TokenInputs :
    (VerifyToken(t).ok \/ RequireAuth(Bearer(t)).status = 200) =>
      /\ t \in DOMAIN tokens
      /\ tokens[t].jti \notin DOMAIN tokenBlacklist
      /\ tokens[t].sessionId \in DOMAIN activeSessions
      /\ ~(activeSessions[tokens[t].sessionId].expiresAt < now)

\* an unexpired, unrevoked token whose session is still stored but has expired
C2_Witness ==
  \E t \in DOMAIN tokens :
    /\ JwtVerify(t) = "ok"
    /\ tokens[t].jti \notin DOMAIN tokenBlacklist
    /\ SessionExpired(activeSessions, tokens[t].sessionId)
    /\ ~VerifyToken(t).ok
    /\ RequireAuth(Bearer(t)).status = 401

\* C3: a successful logout with token T leaves T's session deleted and T's jti
\* in the revocation set, so the blacklist check alone and the session check
\* alone each reject T.
C3_LogoutMutatesBoth ==
  [][\A h \in Headers :
       LogoutOk(h) =>
         (/\ tokens[h.token].sessionId \notin DOMAIN activeSessions
          /\ tokens[h.token].jti \in DOMAIN tokenBlacklist
          /\ IsTokenBlacklisted(tokenBlacklist, tokens[h.token].jti)
          /\ ~IsValidSession(activeSessions, tokens[h.token].sessionId))']_vars

\* a logout has just written its blacklist entry and deleted the session
C3_Witness ==
  \E t \in DOMAIN tokens :
    /\ tokens[t].jti \in DOMAIN tokenBlacklist
    /\ tokenBlacklist[tokens[t].jti].blacklistedAt = now
    /\ tokens[t].sessionId \notin DOMAIN activeSessions
    /\ tokens[t].iat < now

\* C4: for every token string, requireAuth admits the request exactly when
\* verifyToken returns claims.
C4_HttpAndWsVerifyAgree ==
  \A t \in TokenInputs :
    (RequireAuth(Bearer(t)).status = 200) <=> VerifyToken(t).ok

\* one token accepted by both paths while another, revoked, is rejected by both
C4_Witness ==
  \E t1, t2 \in DOMAIN tokens :
    /\ VerifyToken(t1).ok /\ RequireAuth(Bearer(t1)).status = 200
    /\ JwtVerify(t2) = "ok"
    /\ IsTokenBlacklisted(tokenBlacklist, tokens[t2].jti)
    /\ ~VerifyToken(t2).ok /\ RequireAuth(Bearer(t2)).status = 401

(***************************************************************************)
(* Claims about the connection manager.                                    *)
(***************************************************************************)
\* the connections registered to userId
ConnsOf(cl, userId) == IF userId \in DOMAIN cl THEN cl[userId] ELSE {}

\* the positions of the frames of one type written to connection d
FramesTo(fs, d, type) == {i \in 1..Len(fs) : fs[i].to = d /\ fs[i].type = type}

\* connection c is registered to a user and its handshake carried no token:
\* it was authenticated by an auth message
AuthenticatedByMessage(c) ==
  /\ c \in DOMAIN sockets
  /\ sockets[c].userId = NULL
  /\ \E u \in UserIds : c \in ConnsOf(clients, u)

DispatchedTypes == {"join_room", "leave_room", "typing", "presence", "ping"}

\* C5: on an open connection that was authenticated by a valid auth message, a
\* later join_room, leave_room, typing, presence or ping is dispatched: it is
\* not answered with the error "Authentication required".
C5_AuthMessageThenDispatched ==
  [][\A c \in Conns, m \in WsMessages :
       (/\ AuthenticatedByMessage(c)
        /\ IsOpen(sockets, c)
        /\ m.type \in DispatchedTypes
        /\ WsMessage(c, m))
       => \A i \in FramesTo(out', c, "error") :
            out'[i].arg # "Authentication required"]_vars

\* the connections of userId that are not closed, other than c
OtherLiveConns(userId, c) ==
  {d \in ConnsOf(clients, userId) \ {c} : sockets[d].readyState # "CLOSED"}

\* the open connections registered to users other than userId
Listeners(userId) ==
  {d \in Conns : /\ d \in DOMAIN sockets
                 /\ IsOpen(sockets, d)
                 /\ \E v \in UserIds \ {userId} : d \in ConnsOf(clients, v)}

OfflineFrames(fs, d, userId) ==
  {i \in FramesTo(fs, d, "presence_update") :
     fs[i].userId = userId /\ fs[i].arg = "offline"}

\* C6: when a connection of user U closes, whether it was authenticated in the
\* handshake or by an auth message, every open connection of the other users
\* receives exactly one presence_update(U, offline) if U has no other live
\* connection, and none if U has one.
C6_OfflineOnLastClose ==
  [][\A c \in Conns, u \in UserIds :
       (/\ c \in ConnsOf(clients, u)
        /\ c \in DOMAIN sockets
        /\ sockets[c].readyState = "OPEN"
        /\ WsClose(c))
       => \A d \in Listeners(u) \ {c} :
            Cardinality(OfflineFrames(out', d, u)) =
              IF OtherLiveConns(u, c) = {} THEN 1 ELSE 0]_vars

\* the open connections of the users subscribed to roomId
SubscriberConns(roomId) ==
  {d \in Conns : /\ d \in DOMAIN sockets
                 /\ IsOpen(sockets, d)
                 /\ \E u \in roomSubscriptions[roomId] : d \in ConnsOf(clients, u)}

NewMessageFrames(fs, d, roomId) ==
  {i \in FramesTo(fs, d, "new_message") : fs[i].roomId = roomId}

\* C7: when POST /messages/:roomId answers 201, every open connection of every
\* subscriber of roomId is sent a new_message event for the room.
C7_PostIsBroadcast ==
  [][\A t \in TokenInputs, r \in RoomInputs, b \in ContentInputs, l \in BOOLEAN :
       (/\ PostMessageStatus(Bearer(t), r, b, l) = 201
        /\ PostMessage(Bearer(t), r, b, l))
       => \A d \in SubscriberConns(r) : NewMessageFrames(out', d, r) # {}]_vars

ErrorFrames(fs, d, msg) == {i \in FramesTo(fs, d, "error") : fs[i].arg = msg}

\* C9: a join_room from an authenticated user is decided by the rooms store as
\* it is now: for a room that does not exist the sender gets "Room not found",
\* for a private room the user is not a member of at this moment the sender
\* gets "Access denied", and in both cases no subscription changes and nothing
\* else is sent; for a room the user may access now, the user is subscribed.
C9_JoinChecksCurrentAccess ==
  [][\A c \in Conns, m \in RoomMessages :
       (/\ m.type = "join_room"
        /\ c \in DOMAIN sockets
        /\ sockets[c].userId # NULL
        /\ IsOpen(sockets, c)
        /\ WsMessage(c, m))
       => LET u == sockets[c].userId
              r == m.roomId
          IN  IF r \notin DOMAIN rooms
                THEN /\ ErrorFrames(out', c, "Room not found") # {}
                     /\ \A k \in 1..Len(out') : out'[k].arg = "Room not found"
                     /\ UNCHANGED roomSubscriptions
              ELSE IF rooms[r].type = "private" /\ u \notin rooms[r].members
                THEN /\ ErrorFrames(out', c, "Access denied") # {}
                     /\ \A k \in 1..Len(out') : out'[k].arg = "Access denied"
                     /\ UNCHANGED roomSubscriptions
              ELSE /\ u \in roomSubscriptions'[r]
                   /\ FramesTo(out', c, "joined_room") # {}
                   /\ FramesTo(out', c, "error") = {}]_vars

\* a user who was a member of a private room when the server started, and has
\* been removed since, has just been refused
C9_Witness ==
  \E c \in DOMAIN sockets, r \in GuardedRooms :
    /\ sockets[c].userId # NULL
    /\ sockets[c].userId \in initialRooms[r].members
    /\ sockets[c].userId \notin rooms[r].members
    /\ sockets[c].userId \notin roomSubscriptions[r]
    /\ ErrorFrames(out, c, "Access denied") # {}

\* C10: a typing_stop(U, R) is written only while a typing_start(U, R) is
\* outstanding (U's timer for R is pending), so no start is followed by two
\* stops; and a leave_room(R) from U while U's indicator is active ends it in
\* that step, with the typing_stop sent to the subscribers of R.
C10_OneStopPerStart ==
  [][/\ \A k \in 1..Len(out') :
          out'[k].type = "typing_stop"
            => out'[k].userId \in typingUsers[out'[k].roomId]
     /\ \A c \in Conns, m \in RoomMessages :
          (/\ m.type = "leave_room"
           /\ c \in DOMAIN sockets
           /\ sockets[c].userId # NULL
           /\ sockets[c].userId \in typingUsers[m.roomId]
           /\ WsMessage(c, m))
          => sockets[c].userId \notin typingUsers'[m.roomId]]_vars

\* C11: no (roomId, userId) key ever has more than one scheduled timeout, the
\* key has one exactly while typingUsers holds the user, and when the timer of
\* a key fires none is left for it: after any run of typing(isTyping=true)
\* events one typing_stop comes from the timer.
C11_OneTimerPerKey ==
  [][/\ \A r \in RoomInputs, u \in UserIds :
          /\ typingTimeouts'[r][u] <= 1
          /\ typingTimeouts'[r][u] = 1 <=> u \in typingUsers'[r]
     /\ \A r \in RoomInputs, u \in UserIds :
          TimerFire(r, u) => typingTimeouts'[r][u] = 0 /\ u \notin typingUsers'[r]]_vars

\* a typing_start of a user has just been sent to a subscriber and one timeout
\* of the key is pending
C11_Witness ==
  \E r \in RoomInputs, u \in UserIds :
    /\ typingTimeouts[r][u] = 1
    /\ \E k \in 1..Len(out) :
         out[k].type = "typing_start" /\ out[k].userId = u /\ out[k].roomId = r

\* a frame the protocol answers with an error: an auth message whose token
\* does not verify, an unknown type, or a frame that is not JSON
ProtocolViolation(m) ==
  \/ m.type = "auth" /\ ~VerifyToken(m.token).ok
  \/ m.type \in {"bogus", "not json"}

\* C12: an auth message with a token that does not verify, a message of
\* unknown type and a non-JSON frame, sent on an open connection, are each
\* answered with an error event and leave the connection open.
C12_ProtocolErrorsKeepOpen ==
  [][\A c \in Conns, m \in WsMessages :
       (/\ c \in DOMAIN sockets
        /\ IsOpen(sockets, c)
        /\ ProtocolViolation(m)
        /\ WsMessage(c, m))
       => /\ FramesTo(out', c, "error") # {}
          /\ sockets'[c].readyState = "OPEN"]_vars

\* a connection that is open and on which no authentication has succeeded or
\* failed
Pending(c) ==
  /\ c \in DOMAIN sockets
  /\ IsOpen(sockets, c)
  /\ sockets[c].userId = NULL
  /\ \A u \in UserIds : c \notin ConnsOf(clients, u)

\* C13: a Pending connection that sends a message of any type other than auth
\* is answered with the one error "Authentication required"; the connection
\* stays open and Pending, and the registry, the room subscriptions, the
\* typing timers and the user records do not change.
C13_PendingOnlyAuth ==
  [][\A c \in Conns, m \in WsMessages :
       (/\ Pending(c)
        /\ m.type \notin {"auth", "not json"}
        /\ WsMessage(c, m))
       => /\ out' = <<Frame(c, "error", NULL, NULL, "Authentication required")>>
          /\ Pending(c)'
          /\ UNCHANGED <<sockets, clients, roomSubscriptions, typingUsers,
                         typingTimeouts, users>>]_vars

\* a Pending connection has just been refused while another user is connected
\* and subscribed
C13_Witness ==
  \E c \in Conns :
    /\ Pending(c)
    /\ out = <<Frame(c, "error", NULL, NULL, "Authentication required")>>
    /\ \E u \in UserIds : ConnsOf(clients, u) # {} /\ u \in roomSubscriptions["general"]

\* c is in the connection set of some user
Registered(cl, c) == \E u \in UserIds : c \in ConnsOf(cl, u)

\* the events that are fanned out to users
FanOutEvents ==
  {"presence_update", "new_message", "user_joined", "user_left",
   "typing_start", "typing_stop"}

\* C14: a connection enters a user's connection set only in a step in which a
\* token of that user verifies, in the handshake or in an auth message on that
\* connection; a handshake with a token that does not verify leaves the socket
\* closed, unregistered and without a frame; and every presence_update,
\* new_message, user_joined, user_left, typing_start and typing_stop frame is
\* addressed to a registered connection.
C14_UnauthenticatedNeverRegistered ==
  [][/\ \A c \in Conns, u \in UserIds :
          (c \in ConnsOf(clients', u) /\ c \notin ConnsOf(clients, u))
          => \E t \in TokenIds :
               /\ VerifyToken(t).ok
               /\ VerifyToken(t).userId = u
               /\ \/ c \notin DOMAIN sockets /\ WsConnect(Bearer(t))
                  \/ WsMessage(c, Msg("auth", t, NULL, FALSE, NULL))
     /\ \A q \in QueryTokens :
          (q.kind = "bearer" /\ ~VerifyToken(q.token).ok /\ WsConnect(q))
          => \A c \in DOMAIN sockets' \ DOMAIN sockets :
               /\ sockets'[c].readyState = "CLOSED"
               /\ ~Registered(clients', c)
               /\ out' = <<>>
     /\ \A k \in 1..Len(out') :
          out'[k].type \in FanOutEvents => Registered(clients', out'[k].to)]_vars

\* a presence_update has just been fanned out to a registered connection while
\* a connection that never authenticated (Pending, or refused at the handshake)
\* exists: it is not registered and is sent nothing
C14_Witness ==
  \E c, d \in DOMAIN sockets :
    /\ ~Registered(clients, c)
    /\ sockets[c].userId = NULL
    /\ Registered(clients, d)
    /\ \E k \in 1..Len(out) : out[k].type = "presence_update" /\ out[k].to = d
    /\ \A k \in 1..Len(out) : out[k].to # c

\* C15: no connection is in the connection sets of two different users.
C15_OneUserPerConnection ==
  \A c \in Conns, u, v \in UserIds :
    (c \in ConnsOf(clients, u) /\ c \in ConnsOf(clients, v)) => u = v

\* C16: when the close of a connection removes user U from the registry, then
\* in the resulting state U is in no room's subscriber set, typingUsers holds
\* U for no room and no timeout keyed by (any room, U) is scheduled, so the
\* timer of no such key can fire.
C16_DisconnectClearsUser ==
  [][\A c \in Conns, u \in UserIds :
       (/\ c \in ConnsOf(clients, u)
        /\ WsClose(c)
        /\ u \notin DOMAIN clients')
       => \A r \in RoomInputs :
            /\ u \notin roomSubscriptions'[r]
            /\ u \notin typingUsers'[r]
            /\ typingTimeouts'[r][u] = 0]_vars

\* the last connection of a subscribed, typing user has just closed: the
\* offline presence and the typing_stop went to another subscriber
C16_Witness ==
  \E c \in DOMAIN sockets, u \in UserIds :
    /\ sockets[c].userId = u
    /\ sockets[c].readyState = "CLOSED"
    /\ u \notin DOMAIN clients
    /\ \E k \in 1..Len(out) :
         out[k].type = "presence_update" /\ out[k].userId = u /\ out[k].arg = "offline"
    /\ \E k \in 1..Len(out) : out[k].type = "typing_stop" /\ out[k].userId = u
    /\ \A r \in RoomInputs : u \notin roomSubscriptions[r] /\ typingTimeouts[r][u] = 0

\* C17: a sweep terminates every connection that has not answered the ping of
\* the sweep before and no connection that has; and when the close of a
\* terminated connection of user U is processed, the connection leaves U's
\* connection set.
C17_DeadPeerLeavesRegistry ==
  [][/\ Heartbeat
          => \A c \in DOMAIN sockets :
               sockets[c].readyState = "OPEN"
                 => sockets'[c].readyState =
                      IF sockets[c].isAlive THEN "OPEN" ELSE "TERMINATED"
     /\ \A c \in Conns, u \in UserIds :
          (/\ c \in ConnsOf(clients, u)
           /\ sockets[c].readyState = "TERMINATED"
           /\ WsClose(c))
          => c \notin ConnsOf(clients', u)]_vars

\* the open connections of the users in the set us
OpenConnsOf(us) ==
  {d \in DOMAIN sockets : IsOpen(sockets, d) /\ \E v \in us : d \in ConnsOf(clients, v)}

\* the frames of one type about user u and room r written to connection d
RoomFrames(fs, d, type, u, r) ==
  {k \in FramesTo(fs, d, type) : fs[k].userId = u /\ fs[k].roomId = r}

\* C18: a join_room of user U for a room U may access adds U to the room's
\* subscriber set and changes no other set, sends joined_room to the open
\* connections of U and to no other, and sends user_joined(U, R) to exactly
\* the open connections of the other subscribers, U being left out of the
\* recipients; a leave_room removes U from the room's set (no set changes if U
\* was not subscribed) and sends user_left(U, R) to exactly the open
\* connections of the subscribers that remain.
C18_JoinLeaveFanOut ==
  [][\A c \in Conns, m \in RoomMessages :
       (/\ c \in DOMAIN sockets
        /\ sockets[c].userId # NULL
        /\ IsOpen(sockets, c)
        /\ WsMessage(c, m))
       => LET u == sockets[c].userId
              r == m.roomId
          IN  /\ (m.type = "join_room" /\ CanAccess(r, u)) =>
                   /\ roomSubscriptions' =
                        [roomSubscriptions EXCEPT ![r] = @ \cup {u}]
                   /\ \A d \in Conns :
                        /\ RoomFrames(out', d, "joined_room", NULL, r) # {}
                             <=> d \in OpenConnsOf({u})
                        /\ RoomFrames(out', d, "user_joined", u, r) # {}
                             <=> d \in OpenConnsOf(roomSubscriptions'[r] \ {u})
              /\ m.type = "leave_room" =>
                   /\ roomSubscriptions' =
                        [roomSubscriptions EXCEPT ![r] = @ \ {u}]
                   /\ u \notin roomSubscriptions[r] => UNCHANGED roomSubscriptions
                   /\ \A d \in Conns :
                        RoomFrames(out', d, "user_left", u, r) # {}
                          <=> d \in OpenConnsOf(roomSubscriptions'[r])]_vars

\* a user has just joined a room another connected user is subscribed to: the
\* joiner's connection got joined_room and no user_joined, the other user's
\* connection got user_joined
C18_Witness ==
  \E c, d \in DOMAIN sockets, r \in RoomInputs :
    /\ c # d
    /\ sockets[c].userId # NULL
    /\ sockets[c].userId \in roomSubscriptions[r]
    /\ RoomFrames(out, c, "joined_room", NULL, r) # {}
    /\ RoomFrames(out, c, "user_joined", sockets[c].userId, r) = {}
    /\ RoomFrames(out, d, "user_joined", sockets[c].userId, r) # {}

PresenceFrames(fs, d, u, status) ==
  {k \in FramesTo(fs, d, "presence_update") : fs[k].userId = u /\ fs[k].arg = status}

\* C19: a presence message of user U with a status outside {online, offline,
\* away, busy} sends the error "Invalid status" to U's open connections and
\* nothing else, and changes no user record; with a valid status it stores the
\* status in U's record, changes no other record, and sends
\* presence_update(U, status) to exactly the open registered connections, and
\* nothing else.
C19_PresenceUpdate ==
  [][\A c \in Conns, m \in OtherMessages :
       (/\ m.type = "presence"
        /\ c \in DOMAIN sockets
        /\ sockets[c].userId # NULL
        /\ IsOpen(sockets, c)
        /\ WsMessage(c, m))
       => LET u == sockets[c].userId
          IN  IF m.status \notin {"online", "offline", "away", "busy"}
                THEN /\ UNCHANGED users
                     /\ \A k \in 1..Len(out') :
                          out'[k].type = "error" /\ out'[k].arg = "Invalid status"
                     /\ \A d \in Conns :
                          ErrorFrames(out', d, "Invalid status") # {}
                            <=> d \in OpenConnsOf({u})
                ELSE /\ users' = [users EXCEPT ![u].status = m.status]
                     /\ \A k \in 1..Len(out') :
                          /\ out'[k].type = "presence_update"
                          /\ out'[k].userId = u
                          /\ out'[k].arg = m.status
                     /\ \A d \in Conns :
                          PresenceFrames(out', d, u, m.status) # {}
                            <=> d \in OpenConnsOf(UserIds)]_vars

\* a user has just set a status that only a presence message produces, and a
\* connection of another user, subscribed to no room, received the update
C19_Witness ==
  \E c, d \in DOMAIN sockets, st \in {"away", "busy"} :
    /\ sockets[c].userId # NULL
    /\ users[sockets[c].userId].status = st
    /\ d \in OpenConnsOf(UserIds \ {sockets[c].userId})
    /\ d \notin OpenConnsOf({sockets[c].userId})
    /\ \A r \in RoomInputs : d \notin OpenConnsOf(roomSubscriptions[r])
    /\ PresenceFrames(out, d, sockets[c].userId, st) # {}

(***************************************************************************)
(* Claims about the message routes.                                        *)
(***************************************************************************)
\* the messages among ids that are stored in a private room userId is not a
\* member of
Leaked(ids, userId) ==
  {k \in 1..Len(ids) :
     /\ rooms[messages[ids[k]].roomId].type = "private"
     /\ userId \notin rooms[messages[ids[k]].roomId].members}

\* C20: no read request answered 200 (the listing of a room, a single message,
\* a search with or without a room filter) carries a message of a private room
\* the authenticated user is not a member of.
C20_ReadsRespectPrivateRooms ==
  \A t \in TokenIds :
    LET h == Bearer(t)
        u == RequireAuth(h).userId
    IN  RequireAuth(h).status = 200 =>
          /\ \A r \in RoomInputs : Leaked(RoomResponse(h, r).ids, u) = {}
          /\ \A r \in RoomInputs, i \in MessageIdInputs :
               Leaked(MessageResponse(h, r, i).ids, u) = {}
          /\ \A q \in QueryInputs, r \in RoomFilters :
               Leaked(SearchResponse(h, q, r).ids, u) = {}

(***************************************************************************)
(* Claims about the user store.                                            *)
(***************************************************************************)
\* C21: no two user records share a username and no two share an email, in
\* every reachable state, register requests in flight included.
C21_UniqueUsernamesAndEmails ==
  \A i, j \in 1..Len(UserRecords) :
    i # j => /\ UserRecords[i].username # UserRecords[j].username
             /\ UserRecords[i].email # UserRecords[j].email

(***************************************************************************)
(* Claims about the message store.                                         *)
(***************************************************************************)
Elems(seq) == {seq[k] : k \in 1..Len(seq)}

\* the positions of the soft-deleted messages
DeletedAt == {k \in 1..Len(messages) : messages[k].deleted}

\* a soft-deleted message is in no listing, no search result and no lookup,
\* and the store operations do not find it
Hidden(k) ==
  LET id == messages[k].id
  IN  /\ \A r \in RoomInputs : id \notin Elems(GetByRoom(r))
      /\ \A q \in QueryInputs, r \in RoomFilters : id \notin Elems(SearchMessages(q, r))
      /\ \A r \in RoomFilters : MessagesFindById(id, r) = <<>>
      /\ \A b \in EditInputs, u \in UserIds :
           /\ UpdateMessage(messages, id, b, u) = messages
           /\ DeleteMessage(messages, id, u) = messages
      /\ \A h \in Headers, r \in DOMAIN rooms, b \in EditInputs :
           /\ RequireAuth(h).status = 200 /\ Trim(b) # ""
                => PutMessageStatus(h, r, id, b) = 404
           /\ RequireAuth(h).status = 200 => DeleteMessageStatus(h, r, id) = 404

\* C22: a soft-deleted message is excluded from every room listing, search and
\* findById; an edit or a delete of it answers not-found; and every step
\* keeps its record as it is, deleted.
C22_DeletedStaysHidden ==
  /\ [](\A k \in DeletedAt : Hidden(k))
  /\ [][\A k \in DeletedAt : Len(messages') >= k /\ messages'[k] = messages[k]]_vars

\* a message was deleted, and a message was posted to its room afterwards
C22_Witness ==
  /\ Len(messages) = MaxMessages
  /\ messages[2].deleted
  /\ messages[MaxMessages].roomId = messages[2].roomId
  /\ ~messages[MaxMessages].deleted

\* new is old after one edit: one more history entry, holding the body of
\* old, behind the entries of old; edited; identifier, room and author kept
Edited(old, new) ==
  /\ new.id = old.id
  /\ new.roomId = old.roomId
  /\ new.userId = old.userId
  /\ Len(new.editHistory) = Len(old.editHistory) + 1
  /\ SubSeq(new.editHistory, 1, Len(old.editHistory)) = old.editHistory
  /\ new.editHistory[Len(new.editHistory)].previousContent = old.content
  /\ new.edited

\* the store is ms but for one edit of the message at position k
EditOf(ms, k, after) ==
  /\ Len(after) = Len(ms)
  /\ Edited(ms[k], after[k])
  /\ \A j \in 1..Len(ms) : j # k => after[j] = ms[j]

\* C23: a successful edit keeps the identifier, room and author of the
\* message, appends exactly one history entry holding the body before the edit,
\* sets edited and leaves the other messages unchanged; no step changes a
\* history in any other way, so n edits leave n entries in edit order.
C23_EditAppendsHistory ==
  /\ [](\A t \in TokenInputs, r \in RoomInputs, i \in MessageIdInputs, b \in EditInputs :
          LET h == Bearer(t)
          IN  PutMessageStatus(h, r, i, b) = 200
                => EditOf(messages, FindLive(messages, i),
                          UpdateMessage(messages, i, Trim(b), RequireAuth(h).userId)))
  /\ [][\A k \in 1..Len(messages) :
          \/ messages'[k].editHistory = messages[k].editHistory
          \/ EditOf(messages, k, messages')]_vars

\* a message edited twice: the history holds its first and its second body
C23_Witness ==
  \E k \in 1..Len(messages) :
    /\ Len(messages[k].editHistory) = 2
    /\ messages[k].editHistory[1].previousContent = initialMessages[k].content
    /\ messages[k].editHistory[2].previousContent = "hello"
    /\ messages[k].content = "hello again"

\* the requester may delete the message at position k of room r
MayDelete(auth, r, k) ==
  \/ messages[k].userId = auth.userId
  \/ rooms[r].createdBy = auth.userId
  \/ users[auth.userId].role \in {"admin", "moderator"}

C24_OnlyAuthorEdits ==
  /\ [](\A t \in TokenIds, k \in 1..Len(messages), b \in EditInputs :
          LET h == Bearer(t)
              m == messages[k]
          IN  /\ RequireAuth(h).status = 200
              /\ ~m.deleted
              /\ m.userId # RequireAuth(h).userId
              /\ Trim(b) # ""
              => /\ PutMessageStatus(h, m.roomId, m.id, b) = 403
                 /\ LegacyPutMessageStatus(h, m.roomId, m.id, b) = 403)
  /\ [][\A k \in 1..Len(messages) :
          messages'[k].editHistory # messages[k].editHistory
            => /\ messages'[k].editHistory # <<>>
               /\ messages'[k].editHistory[Len(messages'[k].editHistory)].editedBy
                    = messages[k].userId]_vars

\* the requests the program's token check rejects
DeniedHeaders == {h \in Headers : RequireAuth(h).status = 401}

\* C26: a request to a message endpoint whose Authorization header is absent,
\* malformed or carries a token that verification rejects is answered 401,
\* carries no message, and no such request changes the message store.
C26_MessageRoutesRequireToken ==
  /\ [](\A h \in DeniedHeaders, r \in RoomInputs :
          /\ LegacyListRoomsStatus(h) = 401
          /\ LegacyRoomResponse(h, r) = Response(401, <<>>)
          /\ RoomResponse(h, r) = Response(401, <<>>)
          /\ \A q \in QueryInputs : SearchResponse(h, q, r) = Response(401, <<>>)
          /\ \A i \in MessageIdInputs :
               /\ MessageResponse(h, r, i) = Response(401, <<>>)
               /\ DeleteMessageStatus(h, r, i) = 401
               /\ \A b \in EditInputs :
                    /\ PutMessageStatus(h, r, i, b) = 401
                    /\ LegacyPutMessageStatus(h, r, i, b) = 401
          /\ \A b \in ContentInputs :
               /\ PostMessageStatus(h, r, b, FALSE) = 401
               /\ LegacyPostMessageStatus(h, r, b) = 401)
  /\ [][\A k \in 1..Len(messages') :
          k > Len(messages) \/ messages'[k] # messages[k]
            => /\ messages'[k].userId \in UserIds
               /\ \E t \in TokenIds : RequireAuth(Bearer(t)).status = 200]_vars

(***************************************************************************)
(* Claims about authentication failures, sessions and revocation entries.  *)
(***************************************************************************)
\* the ways requireAuth rejects a well-formed "Bearer <token>" header
RejectedTokens == {t \in TokenInputs : RequireAuth(Bearer(t)).status = 401}

\* C27: the 401 answers of requireAuth to tokens it rejects, whatever the check
\* that failed (signature, expiry, revocation, session), have one and the same
\* body.
C27_UniformAuthFailure ==
  \A t1, t2 \in RejectedTokens :
    RequireAuth(Bearer(t1)).error = RequireAuth(Bearer(t2)).error

\* the tokens bound to session s
TokensOf(s, tk) == {t \in DOMAIN tk : tk[t].sessionId = s}

\* C28: a successful login adds exactly one session and one token, both with
\* identifiers not in use, bound to each other and to the user; a failed login
\* adds none; no step adds a token or a session in any other way; and a logout
\* with the token of one session leaves every other session in the store and
\* every other accepted token accepted.
C28_OneSessionPerLogin ==
  [][/\ \A u \in UserIds :
          /\ Login(u, FALSE) => UNCHANGED <<tokens, activeSessions>>
          /\ Login(u, TRUE) =>
               \E t \in TokenIds, sid \in TokenIds :
                 /\ t \notin DOMAIN tokens
                 /\ sid \notin DOMAIN activeSessions
                 /\ \A x \in DOMAIN tokens :
                      tokens[x].sessionId # sid /\ tokens[x].jti # tokens'[t].jti
                 /\ DOMAIN tokens' = DOMAIN tokens \cup {t}
                 /\ DOMAIN activeSessions' = DOMAIN activeSessions \cup {sid}
                 /\ tokens'[t].sessionId = sid
                 /\ tokens'[t].userId = u
                 /\ activeSessions'[sid].tokenJti = tokens'[t].jti
                 /\ activeSessions'[sid].userId = u
                 /\ \A x \in DOMAIN tokens : tokens'[x] = tokens[x]
                 /\ \A x \in DOMAIN activeSessions : activeSessions'[x] = activeSessions[x]
     /\ Cardinality(DOMAIN tokens') <= Cardinality(DOMAIN tokens) + 1
     /\ DOMAIN activeSessions' \ DOMAIN activeSessions
          \subseteq {tokens'[t].sessionId : t \in DOMAIN tokens' \ DOMAIN tokens}
     /\ \A h \in Headers :
          LogoutOk(h) =>
            /\ \A sid \in DOMAIN activeSessions \ {tokens[h.token].sessionId} :
                 sid \in DOMAIN activeSessions' /\ activeSessions'[sid] = activeSessions[sid]
            /\ \A t \in DOMAIN tokens \ {h.token} :
                 VerifyToken(t).ok => (VerifyToken(t).ok)']_vars

\* one user holds two tokens: the first has been revoked by a logout, the
\* second is still accepted and its session is in the store
C28_Witness ==
  \E t1, t2 \in DOMAIN tokens :
    /\ t1 # t2
    /\ tokens[t1].userId = tokens[t2].userId
    /\ tokens[t1].jti \in DOMAIN tokenBlacklist
    /\ tokens[t1].sessionId \notin DOMAIN activeSessions
    /\ tokens[t2].sessionId \in DOMAIN activeSessions
    /\ VerifyToken(t2).ok

\* C29: the blacklist entry a logout writes expires when the revoked token
\* expires.
C29_RevocationExpiryIsTokenExpiry ==
  [][\A h \in Headers :
       LogoutOk(h) =>
         /\ tokens[h.token].jti \in DOMAIN tokenBlacklist'
         /\ tokenBlacklist'[tokens[h.token].jti].expiresAt = tokens[h.token].exp]_vars

(***************************************************************************)
(* Claims about the end of a typing indicator.                             *)
(***************************************************************************)
\* C30: a typing message with isTyping = false from user U for room R leaves
\* no timer pending for (R, U) and sends typing_stop(U, R) to exactly the open
\* connections of the subscribers of R other than U; a timer of (R, U) fires
\* only while one is pending, and one becomes pending only by a typing message
\* with isTyping = true from U for R.
C30_TypingStopCancelsTimer ==
  [][/\ \A c \in Conns, m \in TypingMessages :
          (/\ c \in DOMAIN sockets
           /\ sockets[c].userId # NULL
           /\ ~m.isTyping
           /\ WsMessage(c, m))
          => LET u == sockets[c].userId
                 r == m.roomId
             IN  /\ typingTimeouts'[r][u] = 0
                 /\ u \notin typingUsers'[r]
                 /\ \A d \in Conns :
                      RoomFrames(out', d, "typing_stop", u, r) # {}
                        <=> d \in OpenConnsOf(roomSubscriptions[r] \ {u})
     /\ \A r \in RoomInputs, u \in UserIds :
          /\ TimerFire(r, u) => typingTimeouts[r][u] > 0
          /\ typingTimeouts[r][u] = 0 /\ typingTimeouts'[r][u] > 0
               => \E c \in DOMAIN sockets :
                    /\ sockets[c].userId = u
                    /\ WsMessage(c, Msg("typing", 0, r, TRUE, NULL))]_vars

\* a subscriber of a room has just ended its indicator with isTyping = false:
\* another connection got the typing_stop, its own connection did not, and no
\* timer of the key is pending
C30_Witness ==
  \E c, d \in DOMAIN sockets, r \in RoomInputs :
    /\ c # d
    /\ sockets[c].userId # NULL
    /\ IsOpen(sockets, c)
    /\ c \in ConnsOf(clients, sockets[c].userId)
    /\ sockets[c].userId \in roomSubscriptions[r]
    /\ RoomFrames(out, d, "typing_stop", sockets[c].userId, r) # {}
    /\ RoomFrames(out, c, "typing_stop", sockets[c].userId, r) = {}
    /\ typingTimeouts[r][sockets[c].userId] = 0
    /\ sockets[c].userId \notin typingUsers[r]

(***************************************************************************)
(* Claims about timers, presence and the registry across leave, connect,   *)
(* close and logout.                                                       *)
(***************************************************************************)
\* C31: in the state a leave_room of user U for room R leaves, no typing timer
\* of (R, U) is pending, so none fires after the leave.
C31_LeaveCancelsTimer ==
  [][\A c \in Conns, r \in RoomInputs :
       (/\ c \in DOMAIN sockets
        /\ sockets[c].userId # NULL
        /\ WsMessage(c, Msg("leave_room", 0, r, FALSE, NULL)))
       => typingTimeouts'[r][sockets[c].userId] = 0]_vars

\* C32: whenever a presence_update of user U is written (at a handshake or an
\* auth message that authenticates, at the close of U's last connection, at a
\* presence message), the status stored for U in the resulting state is the
\* status the frame announces.
C32_StoredStatusIsAnnounced ==
  [][\A k \in 1..Len(out') :
       out'[k].type = "presence_update"
         => users'[out'[k].userId].status = out'[k].arg]_vars

\* C33: no user key of the registry maps to an empty set, and no connection
\* that has closed is in any user's connection set.
C33_RegistryHoldsLiveConnections ==
  \A u \in DOMAIN clients :
    /\ ConnsOf(clients, u) # {}
    /\ \A c \in ConnsOf(clients, u) :
         c \in DOMAIN sockets /\ sockets[c].readyState # "CLOSED"

\* C34: a logout leaves its token rejected by verifyToken and requireAuth, and
\* no step turns a rejected token into an accepted one: a token that was logged
\* out is never accepted again, whether or not its blacklist entry is still
\* in the store.
C34_LoggedOutNeverAccepted ==
  [][\A t \in DOMAIN tokens :
       /\ LogoutOk(Bearer(t))
            => (~VerifyToken(t).ok /\ RequireAuth(Bearer(t)).status = 401)'
       /\ ~VerifyToken(t).ok => (~VerifyToken(t).ok)'
       /\ RequireAuth(Bearer(t)).status = 401
            => (RequireAuth(Bearer(t)).status = 401)']_vars

\* the only token of user1 was logged out (the stored status is offline), its
\* blacklist entry has been purged and its signature has not expired
C34_Witness ==
  \E t \in DOMAIN tokens :
    /\ tokens[t].userId = "user1"
    /\ \A x \in DOMAIN tokens : tokens[x].userId = "user1" => x = t
    /\ users["user1"].status = "offline"
    /\ JwtVerify(t) = "ok"
    /\ tokens[t].jti \notin DOMAIN tokenBlacklist
    /\ tokens[t].sessionId \notin DOMAIN activeSessions
    /\ ~VerifyToken(t).ok

\* C35: a cleanup sweep deletes exactly the sessions and the blacklist entries
\* whose expiry is strictly before the time of the sweep, leaves every other
\* one as it is, and changes the verdict of verifyToken for no token.
C35_CleanupRemovesExpiredOnly ==
  [][Cleanup =>
       /\ DOMAIN activeSessions' =
            {s \in DOMAIN activeSessions : activeSessions[s].expiresAt >= now}
       /\ \A s \in DOMAIN activeSessions' : activeSessions'[s] = activeSessions[s]
       /\ DOMAIN tokenBlacklist' =
            {j \in DOMAIN tokenBlacklist : tokenBlacklist[j].expiresAt >= now}
       /\ \A j \in DOMAIN tokenBlacklist' : tokenBlacklist'[j] = tokenBlacklist[j]
       /\ \A t \in DOMAIN tokens : (VerifyToken(t).ok)' = VerifyToken(t).ok]_vars

\* an expired session of a user who never logged out is gone from the store
\* while the unexpired session of another login is in it and its token accepted
C35_Witness ==
  \E t1, t2 \in DOMAIN tokens :
    /\ tokens[t1].iat + sessionMaxAge < now
    /\ tokens[t1].sessionId \notin DOMAIN activeSessions
    /\ tokens[t1].jti \notin DOMAIN tokenBlacklist
    /\ tokenBlacklist = EmptyMap
    /\ tokens[t2].sessionId \in DOMAIN activeSessions
    /\ VerifyToken(t2).ok

\* C36: a session keeps the expiry given at its creation (login time plus
\* maxAge) for as long as it is stored, a step changes nothing of a stored
\* session but lastActivity, and a token is rejected by verifyToken and
\* requireAuth whenever more than maxAge has passed since its login.
C36_SessionExpiryFixed ==
  /\ [](/\ \A s \in DOMAIN activeSessions :
             activeSessions[s].expiresAt = activeSessions[s].loginTime + sessionMaxAge
        /\ \A t \in DOMAIN tokens :
             now > tokens[t].iat + sessionMaxAge
               => ~VerifyToken(t).ok /\ RequireAuth(Bearer(t)).status = 401)
  /\ [][\A s \in DOMAIN activeSessions \cap DOMAIN activeSessions' :
          activeSessions'[s] =
            [activeSessions[s] EXCEPT !.lastActivity = activeSessions'[s].lastActivity]]_vars

\* a session that saw authenticated activity after its login has expired while
\* the signature of its token has not: the token is rejected
C36_Witness ==
  \E t \in DOMAIN tokens :
    /\ tokens[t].sessionId \in DOMAIN activeSessions
    /\ activeSessions[tokens[t].sessionId].lastActivity
         > activeSessions[tokens[t].sessionId].loginTime
    /\ now > tokens[t].iat + sessionMaxAge
    /\ JwtVerify(t) = "ok"
    /\ ~VerifyToken(t).ok

C38_NonSubscriberCausesNothing ==
  [][\A c \in Conns, m \in TypingMessages \cup RoomMessages :
       (/\ m.type \in {"typing", "leave_room"}
        /\ c \in DOMAIN sockets
        /\ sockets[c].userId # NULL
        /\ sockets[c].userId \notin roomSubscriptions[m.roomId]
        /\ WsMessage(c, m))
       => /\ \A k \in 1..Len(out') :
               out'[k].roomId = m.roomId
                 => out'[k].type \notin {"typing_start", "typing_stop", "user_left"}
          /\ typingTimeouts'[m.roomId] = typingTimeouts[m.roomId]]_vars

\* the event a non-subscriber's message has just put on a subscriber's
\* connection
C38_Delivered ==
  \E c, d \in DOMAIN sockets, r \in RoomInputs :
    /\ c # d
    /\ sockets[c].userId # NULL
    /\ sockets[c].userId \notin roomSubscriptions[r]
    /\ sockets[d].userId # NULL
    /\ sockets[d].userId \in roomSubscriptions[r]
    /\ RoomFrames(out, d, "typing_start", sockets[c].userId, r) # {}

\* C39: a connection that is open and registered under a user was
\* authenticated with a token verify still accepts: once logout has revoked
\* the token, the connection is closed or out of the registry.  (Tokens do not
\* expire here, and a user holds one token, so a user without an accepted
\* token is a user whose token was logged out.)
C39_RevokedTokenHasNoLiveConnection ==
  \A u \in DOMAIN clients :
    (\E c \in ConnsOf(clients, u) : IsOpen(sockets, c))
      => \E t \in DOMAIN tokens : VerifyToken(t).ok /\ VerifyToken(t).userId = u

\* a connection of a logged-out user has just been subscribed to a room
C39_RevokedJoins ==
  \E c \in DOMAIN sockets, r \in RoomInputs :
    /\ sockets[c].userId # NULL
    /\ ~ \E t \in DOMAIN tokens : VerifyToken(t).ok
    /\ \E k \in 1..Len(out) : out[k].to = c /\ out[k].type = "joined_room"

\* C40: when a connection registered under user U closes while another open
\* connection of U is registered, nothing is sent, the subscriber sets, the
\* typing users and timers and the stored users are unchanged, the registry
\* changes at most by losing the closed connection under U, and the other
\* connection is still reached by a broadcast to every room U is
\* subscribed to.
C40_CloseOfOneConnection ==
  [][\A c, d \in Conns, u \in UserIds :
       (/\ c # d
        /\ c \in ConnsOf(clients, u)
        /\ d \in ConnsOf(clients, u)
        /\ IsOpen(sockets, d)
        /\ WsClose(c))
       => /\ out' = <<>>
          /\ roomSubscriptions' = roomSubscriptions
          /\ typingUsers' = typingUsers
          /\ typingTimeouts' = typingTimeouts
          /\ users' = users
          /\ \A v \in UserIds \ {u} : ConnsOf(clients', v) = ConnsOf(clients, v)
          /\ ConnsOf(clients', u) \in {clients[u], clients[u] \ {c}}
          /\ sockets[c].userId = u => ConnsOf(clients', u) = clients[u] \ {c}
          /\ d \in ConnsOf(clients', u)
          /\ IsOpen(sockets', d)
          /\ \A r \in RoomInputs :
               u \in roomSubscriptions[r]
                 => \E k \in 1..Len(BroadcastToRoom(clients', sockets', roomSubscriptions',
                                                    r, Event("new_message", NULL, r, NULL), NULL)) :
                      BroadcastToRoom(clients', sockets', roomSubscriptions',
                                      r, Event("new_message", NULL, r, NULL), NULL)[k].to = d]_vars

\* one of two connections of a user has closed and left the registry; the
\* user is still subscribed, with a typing timer pending
C40_Witness ==
  \E c, d \in DOMAIN sockets, u \in UserIds, r \in RoomInputs :
    /\ sockets[c].userId = u
    /\ sockets[c].readyState = "CLOSED"
    /\ sockets[d].userId = u
    /\ IsOpen(sockets, d)
    /\ ConnsOf(clients, u) = {d}
    /\ u \in roomSubscriptions[r]
    /\ typingTimeouts[r][u] > 0
    /\ users[u].status = "online"
    /\ out = <<>>

====
